---- MODULE Spec2Model ----
(***************************************************************************)
(* Model of the live-world simulation core of src/main.py: entities,       *)
(* effects, combat, the per-player auto-attack and rest tasks, the monster *)
(* AI and the heartbeat.                                                   *)
(*                                                                         *)
(* Time.  time.time() is the integer clock `now`.  The heartbeat sleeps    *)
(* TICK_SECONDS = 1 between ticks, so one heartbeat step advances `now` by *)
(* one and then runs the tick's body.  Commands and task wake-ups happen   *)
(* between two ticks and read the clock of the last tick.                  *)
(*                                                                         *)
(* Scheduling.  asyncio is cooperative: a handler runs without             *)
(* interruption up to an await that really suspends.  A command is split   *)
(* where it awaits something that can suspend and that leaves state to be  *)
(* used afterwards; each piece is one action.                              *)
(***************************************************************************)
EXTENDS Integers, Sequences, FiniteSets, TLC

\* ---------------------------------------------------------------- constants
OUT_OF_COMBAT_SECONDS == 10
DEATH_RESPAWN_SECONDS == 15
MOB_AI_PERIOD == 3
MOB_AI_JITTER == 1
REST_PULSES == 6
REST_SLEEP == 10
REST_FRACTION == 6
BASE_HP == 100
BASE_POW == 10
BASE_DEF == 0

\* time.time() at start-up: any positive number (0 is "never in combat").
T0 == 1

\* ------------------------------------------------------------------- bounds
\* task objects a player keeps at a time (finished ones are forgotten)
MaxTasks == 2
\* effects an entity carries at a time (an ability is not used on a fuller target)
MaxEffects == 2

Min(a, b) == IF a <= b THEN a ELSE b
Max(a, b) == IF a >= b THEN a ELSE b

clamp(x, lo, hi) == Max(lo, Min(hi, x))

\* ------------------------------------------------------------- catalog data
\* The YAML catalogs are read-only inputs of the program; these are the
\* tables of the scenarios checked here.
WS == {"w1", "w2"}
Rooms == {"trade_district", "wilds"}
DefaultRoom == "trade_district"
SpawnRooms == <<"wilds">>

\* WORLD['rooms'][rid]['exits']
Exits == [trade_district |-> [north |-> "wilds"], wilds |-> [south |-> "trade_district"]]
Dirs == {"north", "south"}
ExitOf(rid, d) == IF d \in DOMAIN Exits[rid] THEN Exits[rid][d] ELSE "none"

\* Primary stats of a character (rolled once at creation, Warrior archetype).
STATS == [STR |-> 15, INT |-> 10, DEX |-> 10, DEFENSE |-> 6, LCK |-> 10]

\* ITEMS[name]['mods'] (get_item_mods; no item, no mods)
ItemNames == {"Sword"}
get_item_mods(it) == IF it = "Sword" THEN {<<"power", 5>>} ELSE {}

\* Names are sequences of characters, so that lower() and startswith() are
\* computed and not assumed.
Lower(c) == CASE c = "I" -> "i" [] c = "B" -> "b" [] c = "A" -> "a"
                [] c = "W" -> "w" [] c = "S" -> "s" [] OTHER -> c
lower(str) == [i \in 1..Len(str) |-> Lower(str[i])]
startswith(str, prefix) ==
  Len(prefix) <= Len(str) /\ SubSeq(str, 1, Len(prefix)) = prefix

\* MONSTERS['templates'][tid]; skills are [name, type, amount, per_tick, duration, cd]
NoSkill == [name |-> "-", type |-> "-", amount |-> 0, per_tick |-> 0, duration |-> 0, cd |-> 0]
MONSTERS == [
  imp  |-> [name |-> <<"I", "m", "p">>, hp |-> 30, power |-> 40, defense |-> 0,
            aggro |-> TRUE, respawn |-> 45, skills |-> <<>>],
  boar |-> [name |-> <<"B", "o", "a", "r">>, hp |-> 60, power |-> 8, defense |-> 0,
            aggro |-> FALSE, respawn |-> 45, skills |-> <<>>],
  wolf |-> [name |-> <<"W", "o", "l", "f">>, hp |-> 60, power |-> 31, defense |-> 0,
            aggro |-> TRUE, respawn |-> 45, skills |-> <<>>],
  shaman |-> [name |-> <<"S", "h", "a", "m", "a", "n">>, hp |-> 60, power |-> 12, defense |-> 0,
              aggro |-> TRUE, respawn |-> 45,
              skills |-> <<[NoSkill EXCEPT !.name = "bolt", !.type = "damage", !.amount = 6,
                                           !.cd = 4]>>],
  witch |-> [name |-> <<"W", "i", "t", "c", "h">>, hp |-> 60, power |-> 6, defense |-> 0,
             aggro |-> TRUE, respawn |-> 45,
             skills |-> <<[NoSkill EXCEPT !.name = "hex", !.type = "dot", !.per_tick = 2,
                                          !.duration = 2, !.cd = 5],
                          [NoSkill EXCEPT !.name = "salve", !.type = "hot", !.per_tick = 3,
                                          !.duration = 2, !.cd = 3]>>]]

\* The names the characters were given at creation.
PlayerName == [w1 |-> <<"A", "l">>, w2 |-> <<"B", "o">>]

\* What a user may type as the name of a target (lowered): the prefixes of mob
\* names and one that matches nothing, and with them a prefix of a player name.
MobQueries == {<<"i">>, <<"b">>, <<"x">>}
Queries == MobQueries \cup {<<"a">>}

\* CLASSES['abilities'][cls]: the abilities of the characters' class.
NoAbility == [type |-> "-", target |-> "enemy", amount |-> 0, per_tick |-> 0, duration |-> 0,
              tick |-> 0, cd |-> 0, flat |-> 0, mod |-> {}]
ABILITIES == [
  smite  |-> [NoAbility EXCEPT !.type = "damage", !.amount = 5, !.cd = 2],
  venom  |-> [NoAbility EXCEPT !.type = "dot", !.per_tick = 20, !.duration = 2, !.tick = 1],
  mend   |-> [NoAbility EXCEPT !.type = "hot", !.per_tick = 10, !.duration = 2, !.tick = 1,
                               !.target = "self"],
  warcry |-> [NoAbility EXCEPT !.type = "buff", !.amount = 5, !.duration = 3, !.target = "self"],
  vigor  |-> [NoAbility EXCEPT !.type = "buff", !.duration = 2, !.target = "self",
                               !.mod = {<<"max_hp", 60>>}],
  guard  |-> [NoAbility EXCEPT !.type = "buff", !.duration = 2, !.target = "self",
                               !.mod = {<<"defense", 3>>}],
  ward   |-> [NoAbility EXCEPT !.type = "shield", !.amount = 20, !.target = "self", !.cd = 3],
  heal   |-> [NoAbility EXCEPT !.type = "heal", !.amount = 30, !.target = "self", !.cd = 2],
  drain  |-> [NoAbility EXCEPT !.type = "lifesteal", !.amount = 20, !.cd = 2],
  bleed  |-> [NoAbility EXCEPT !.type = "dot", !.per_tick = 5, !.duration = 10, !.tick = 2,
                               !.cd = 30],
  graze  |-> [NoAbility EXCEPT !.type = "dot", !.per_tick = 3, !.duration = 2, !.tick = 3,
                               !.cd = 4],
  regen  |-> [NoAbility EXCEPT !.type = "hot", !.per_tick = 4, !.duration = 5, !.tick = 2,
                               !.target = "self", !.cd = 30]]
AbilityIds == DOMAIN ABILITIES
SelfAbilities == {aid \in AbilityIds : ABILITIES[aid].target = "self"}
EnemyAbilities == AbilityIds \ SelfAbilities

\* ---------------------------------------------------------------- entities

VARIABLES
  now,             \* time.time()
  hbRunning,       \* the heartbeat task has not ended
  PLAYERS,         \* keys of the PLAYERS dict: the connected sockets
  player,          \* ws -> the Player object created for that socket
  ROOM_INSTANCES,  \* room id -> [mobs: sequence of Mob, dead_at: set of <<id, ts>>]
  nextMobId,       \* identity of the next Mob object
  autoTasks,       \* ws -> slot -> state of an _auto_attack_loop task
  restTasks,       \* ws -> slot -> state of a do_rest task
  cmd,             \* ws -> the handle_command call in flight
  ev               \* what the last step did (observation only)

vars == <<now, hbRunning, PLAYERS, player, ROOM_INSTANCES, nextMobId, autoTasks,
          restTasks, cmd, ev>>

\* A Python dict is a set of <<key, value>> pairs, one per key.
dict_has(d, k) == \E pr \in d : pr[1] = k
dict_get(d, k, dflt) == IF dict_has(d, k) THEN (CHOOSE pr \in d : pr[1] = k)[2] ELSE dflt
dict_del(d, k) == {pr \in d : pr[1] # k}
dict_set(d, k, v) == dict_del(d, k) \cup {<<k, v>>}

\* In the operators below t is the value of time.time() when the code runs.

\* Entity.flag_combat
flag_combat(e, t) == [e EXCEPT !.last_combat_ts = t]

\* Entity.in_combat
in_combat(e, t) == e.last_combat_ts # 0 /\ (t - e.last_combat_ts) < OUT_OF_COMBAT_SECONDS

\* a shield that takes nothing
Absorbed_nothing(e, dmg) == 0

\* Entity.apply_damage: the part of dmg the shield takes (the return value)
Absorbed(e, dmg) == IF e.shield > 0 THEN Min(e.shield, dmg) ELSE 0

\* an apply_damage whose shield is depleted but takes nothing off the damage
apply_damage_shield_unused(e, dmg, t) ==
  LET absorbed == Absorbed(e, dmg)
      hp1 == clamp(e.hp - Max(0, dmg), 0, e.max_hp)
  IN  [e EXCEPT !.shield = e.shield - absorbed,
                !.hp = hp1,
                !.alive = IF hp1 <= 0 /\ e.alive THEN FALSE ELSE e.alive,
                !.last_combat_ts = t]

\* Entity.apply_damage: the entity afterwards
apply_damage(e, dmg, t) ==
  LET absorbed == Absorbed(e, dmg)
      hp1 == clamp(e.hp - Max(0, dmg - absorbed), 0, e.max_hp)
  IN  [e EXCEPT !.shield = e.shield - absorbed,
                !.hp = hp1,
                !.alive = IF hp1 <= 0 /\ e.alive THEN FALSE ELSE e.alive,
                !.last_combat_ts = t]

\* an Effect that ignores its tick interval and fires on every tick
Effect_every_tick(name, kind, amount, duration, tick, mod) ==
  [name |-> name, kind |-> kind, amount |-> amount,
   remaining |-> Max(0, duration),
   tick |-> 1, next_tick_in |-> 1, mod |-> mod]

\* Effect.__init__
Effect(name, kind, amount, duration, tick, mod) ==
  [name |-> name, kind |-> kind, amount |-> amount,
   remaining |-> Max(0, duration),
   tick |-> Max(1, tick), next_tick_in |-> Max(1, tick), mod |-> mod]

\* Effect.on_tick: the target afterwards (next_tick_in is reset in tick_loop)
on_tick(eff, target, t) ==
  IF eff.kind = "dot"
  THEN flag_combat([target EXCEPT !.hp = clamp(target.hp - eff.amount, 0, target.max_hp)], t)
  ELSE IF eff.kind = "hot"
  THEN [target EXCEPT !.hp = target.hp + clamp(eff.amount, 0, target.max_hp - target.hp)]
  ELSE target

\* setattr(self, k, getattr(self, k, 0) + sign * v) for every key of mods
add_deltas(e, mods, sign) ==
  [e EXCEPT !.power = @ + sign * dict_get(mods, "power", 0),
            !.defense = @ + sign * dict_get(mods, "defense", 0),
            !.max_hp = @ + sign * dict_get(mods, "max_hp", 0),
            !.shield = @ + sign * dict_get(mods, "shield", 0)]

\* Entity.apply_mods
apply_mods(e, mods) ==
  LET e1 == add_deltas(e, mods, 1)
  IN  IF dict_has(mods, "max_hp") THEN [e1 EXCEPT !.hp = clamp(e1.hp, 0, e1.max_hp)] ELSE e1

\* Entity.remove_mods
remove_mods(e, mods) ==
  LET e1 == add_deltas(e, mods, -1)
  IN  IF dict_has(mods, "max_hp") THEN [e1 EXCEPT !.hp = clamp(e1.hp, 0, e1.max_hp)] ELSE e1

\* an add_effect that refreshes the active effect of the same name and adds none
add_effect_refresh(e, eff, t) ==
  LET same == {i \in 1..Len(e.effects) : e.effects[i].name = eff.name}
      e1 == IF same = {} THEN [e EXCEPT !.effects = Append(@, eff)]
            ELSE [e EXCEPT !.effects[CHOOSE i \in same : TRUE] = eff]
      e2 == IF same = {} /\ eff.mod # {} /\ eff.kind = "buff" THEN apply_mods(e1, eff.mod) ELSE e1
  IN  flag_combat(e2, t)

\* Entity.add_effect
add_effect(e, eff, t) ==
  LET e1 == [e EXCEPT !.effects = Append(@, eff)]
      e2 == IF eff.mod # {} /\ eff.kind = "buff" THEN apply_mods(e1, eff.mod) ELSE e1
  IN  flag_combat(e2, t)

\* _tick_effects_on_entity, first loop: effect i of the snapshot counts down and fires
RECURSIVE tick_loop(_, _, _)
tick_loop(ent, i, t) ==
  IF i > Len(ent.effects) THEN ent
  ELSE LET eff == ent.effects[i]
           fires == eff.next_tick_in - 1 <= 0
           e1 == IF fires THEN on_tick(eff, ent, t) ELSE ent
           eff1 == [eff EXCEPT !.remaining = @ - 1,
                               !.next_tick_in = IF fires THEN eff.tick ELSE @ - 1]
       IN  tick_loop([e1 EXCEPT !.effects[i] = eff1], i + 1, t)

\* _tick_effects_on_entity, second loop: the expired effects revert and leave
RECURSIVE expire_loop(_, _)
expire_loop(ent, i) ==
  IF i > Len(ent.effects) THEN [ent EXCEPT !.effects = SelectSeq(@, LAMBDA x : x.remaining > 0)]
  ELSE LET eff == ent.effects[i]
       IN  IF eff.remaining <= 0 /\ eff.mod # {}
           THEN expire_loop(remove_mods(ent, eff.mod), i + 1)
           ELSE expire_loop(ent, i + 1)

\* _tick_effects_on_entity
tick_effects_on_entity(ent, t) == expire_loop(tick_loop(ent, 1, t), 1)

\* Player.recompute_stats (Warrior branch; no race or class modifiers)
recompute_stats(p) ==
  LET wmod == get_item_mods(p.equipment)
      scaled_power == BASE_POW + (STATS.STR \div 3)
      scaled_def == BASE_DEF + (STATS.DEFENSE \div 4)
      max_hp1 == Max(1, BASE_HP + dict_get(wmod, "hp", 0))
  IN  [p EXCEPT !.power = Max(1, scaled_power + dict_get(wmod, "power", 0)),
                !.defense = Max(0, scaled_def + dict_get(wmod, "defense", 0)),
                !.max_hp = max_hp1,
                !.hp = clamp(p.hp, 0, max_hp1)]

\* Player.__init__ followed by create_character (new character)
NewPlayer ==
  recompute_stats(
    [room |-> DefaultRoom, max_hp |-> 100, hp |-> 100, power |-> 10, defense |-> 0,
     shield |-> 0, alive |-> TRUE, effects |-> <<>>, last_combat_ts |-> 0,
     xp |-> 0, cooldowns |-> {}, target |-> <<>>, equipment |-> "none",
     dead_since |-> 0, rest_task |-> 0, auto_task |-> 0])

\* Mob.__init__; ai is the random.randint(0, MOB_AI_PERIOD) of the constructor.
\* deaths counts the mob_death calls made for this instance (observation only).
Mob(template_id, room_id, id, ai) ==
  LET t == MONSTERS[template_id]
  IN  [id |-> id, template_id |-> template_id, name |-> t.name, room |-> room_id,
       max_hp |-> t.hp, hp |-> t.hp, power |-> t.power, defense |-> t.defense,
       shield |-> 0, alive |-> TRUE, effects |-> <<>>, last_combat_ts |-> 0,
       aggro |-> t.aggro, respawn |-> t.respawn, skill_cd |-> {}, ai_cd |-> ai,
       deaths |-> 0]

\* ROOM_INSTANCES.get(rid, {}).get('mobs', [])
mobs_of(inst, rid) == inst[rid].mobs

\* index of the first live mob of the list whose lowered name starts with q, or 0
first_match(mobs, q) ==
  LET hits == {i \in 1..Len(mobs) : mobs[i].alive /\ startswith(lower(mobs[i].name), q)}
  IN  IF hits = {} THEN 0 ELSE CHOOSE i \in hits : \A j \in hits : i <= j

\* mob_death: the death broadcast and the killer's XP (loot and coins, which are
\* economy bookkeeping, are left out)
mob_death_mob(m) == [m EXCEPT !.deaths = @ + 1]
mob_death_killer(k) == [k EXCEPT !.xp = @ + 10]

\* a try_dodge_block that makes the block roll first
dodge_block_block_first(stats, r1, r2) ==
  LET dodge_chance == Min(40, 5 + (stats.DEX \div 3))
      block_chance == Min(25, stats.DEFENSE \div 3)
  IN  IF r1 <= block_chance THEN [res |-> "block", rolls |-> 1]
      ELSE IF r2 <= dodge_chance THEN [res |-> "dodge", rolls |-> 2]
      ELSE [res |-> "none", rolls |-> 2]

\* try_dodge_block for a player with the primary stats stats: the result, and the
\* number of random.randint(1, 100) calls made; r1 and r2 are what the first and
\* the second call return
dodge_block(stats, r1, r2) ==
  LET dodge_chance == Min(40, 5 + (stats.DEX \div 3))
      block_chance == Min(25, stats.DEFENSE \div 3)
  IN  IF r1 <= dodge_chance THEN [res |-> "dodge", rolls |-> 1]
      ELSE IF r2 <= block_chance THEN [res |-> "block", rolls |-> 2]
      ELSE [res |-> "none", rolls |-> 2]

\* try_dodge_block for the characters of the scenarios
try_dodge_block(r1, r2) == dodge_block(STATS, r1, r2).res

\* Values of a random.randint(1, 100) roll that stand for all of them.
RollValues == {1, 100}

\* an ai_pick_skill that takes every skill for ready
ready_skills_all(m) == 1..Len(MONSTERS[m.template_id].skills)

\* ai_pick_skill: the indices of the ready skills of m
ready_skills(m) ==
  LET sk == MONSTERS[m.template_id].skills
  IN  {i \in 1..Len(sk) : dict_get(m.skill_cd, sk[i].name, 0) <= 0}

\* a mob_ai_attack whose blocked attacks still land: only a dodge negates
mob_ai_attack_block_lands(m, tg, sk, r1, r2, t) ==
  LET skill == IF sk = 0 THEN NoSkill ELSE MONSTERS[m.template_id].skills[sk]
      res == try_dodge_block(r1, r2)
      acted == skill.type \in {"damage", "dot", "hot"}
      tg1 == IF skill.type = "damage" /\ res # "dodge"
             THEN apply_damage(tg, Max(0, m.power + skill.amount - tg.defense), t)
             ELSE IF skill.type = "dot"
             THEN add_effect(tg, Effect(skill.name, "dot", skill.per_tick, skill.duration, 1, {}), t)
             ELSE tg
      m1 == IF skill.type = "hot"
            THEN add_effect(m, Effect(skill.name, "hot", skill.per_tick, skill.duration, 1, {}), t)
            ELSE m
      m2 == flag_combat([m1 EXCEPT !.skill_cd = dict_set(@, skill.name, skill.cd)], t)
      tg3 == IF res # "dodge" THEN apply_damage(tg, Max(0, m.power - tg.defense), t) ELSE tg
  IN  IF acted
      THEN [m |-> m2, tgt |-> flag_combat(tg1, t),
            what |-> IF skill.type = "damage" /\ res # "none" THEN res ELSE skill.type]
      ELSE [m |-> flag_combat(m, t), tgt |-> flag_combat(tg3, t),
            what |-> IF res = "none" THEN "hit" ELSE res]

\* mob_ai_attack for the chosen target tg, the chosen ready skill sk (0: none is
\* ready) and the rolls r1, r2: the mob and the target afterwards
mob_ai_attack(m, tg, sk, r1, r2, t) ==
  LET skill == IF sk = 0 THEN NoSkill ELSE MONSTERS[m.template_id].skills[sk]
      res == try_dodge_block(r1, r2)
      acted == skill.type \in {"damage", "dot", "hot"}
      \* the skill branch
      tg1 == IF skill.type = "damage" /\ res = "none"
             THEN apply_damage(tg, Max(0, m.power + skill.amount - tg.defense), t)
             ELSE IF skill.type = "dot"
             THEN add_effect(tg, Effect(skill.name, "dot", skill.per_tick, skill.duration, 1, {}), t)
             ELSE tg
      m1 == IF skill.type = "hot"
            THEN add_effect(m, Effect(skill.name, "hot", skill.per_tick, skill.duration, 1, {}), t)
            ELSE m
      m2 == flag_combat([m1 EXCEPT !.skill_cd = dict_set(@, skill.name, skill.cd)], t)
      \* the basic attack
      tg3 == IF res = "none" THEN apply_damage(tg, Max(0, m.power - tg.defense), t) ELSE tg
  IN  IF acted
      THEN [m |-> m2, tgt |-> flag_combat(tg1, t),
            what |-> IF skill.type = "damage" /\ res # "none" THEN res ELSE skill.type]
      ELSE [m |-> flag_combat(m, t), tgt |-> flag_combat(tg3, t),
            what |-> IF res = "none" THEN "hit" ELSE res]

\* a cooldown pass that takes two off every entry per tick
tick_cooldowns_by_two(d) == {<<pr[1], pr[2] - 2>> : pr \in {x \in d : Max(0, x[2] - 2) > 0}}

\* heartbeat, players: the cooldowns of one player
tick_cooldowns(d) == {<<pr[1], pr[2] - 1>> : pr \in {x \in d : Max(0, x[2] - 1) > 0}}

\* _maybe_respawn_player
maybe_respawn_player(p, t) ==
  IF p.alive THEN [p EXCEPT !.dead_since = 0]
  ELSE IF p.dead_since = 0 THEN [p EXCEPT !.dead_since = t]
  ELSE IF t - p.dead_since >= DEATH_RESPAWN_SECONDS
  THEN [p EXCEPT !.alive = TRUE, !.room = DefaultRoom,
                 !.hp = Max(1, p.max_hp \div 2), !.dead_since = 0]
  ELSE p

\* heartbeat, the body of the players loop for one player
player_tick(p, t) ==
  maybe_respawn_player(
    tick_effects_on_entity([p EXCEPT !.cooldowns = tick_cooldowns(@)], t), t)

\* heartbeat, the players loop from position i on; upto is the number of players whose
\* processing completed. fault is the socket whose
\* processing raises (or "none"): nothing catches it there, so the loop and the
\* coroutine end.  The exception is taken to be raised by the effect advance.
RECURSIVE players_loop(_, _, _, _, _)
players_loop(pl, order, i, fault, t) ==
  IF i > Len(order) THEN [pl |-> pl, raised |-> FALSE, upto |-> i - 1]
  ELSE IF order[i] = fault
  THEN [pl |-> [pl EXCEPT ![order[i]].cooldowns = tick_cooldowns(@)], raised |-> TRUE, upto |-> i - 1]
  ELSE players_loop([pl EXCEPT ![order[i]] = player_tick(@, t)], order, i + 1, fault, t)

\* An observation: what happened (k), the socket (ws) and the mob object (id) it
\* concerns, a number (n) and a word (s).
Obs(k, ws, id, n, s) == [k |-> k, ws |-> ws, id |-> id, n |-> n, s |-> s]

\* a reset that draws the countdown from the whole of 0..MOB_AI_PERIOD + MOB_AI_JITTER
AiResets_from_zero == 0..(MOB_AI_PERIOD + MOB_AI_JITTER)

\* MOB_AI_PERIOD + random.uniform(-MOB_AI_JITTER, MOB_AI_JITTER), as the number of
\* ticks (each subtracts TICK_SECONDS = 1) after which the countdown is <= 0
AiResets == (MOB_AI_PERIOD - MOB_AI_JITTER)..(MOB_AI_PERIOD + MOB_AI_JITTER)

index_of(mobs, id) == CHOOSE i \in 1..Len(mobs) : mobs[i].id = id

remove_at(seq, i) == SubSeq(seq, 1, i - 1) \o SubSeq(seq, i + 1, Len(seq))

\* the dead/respawn branch with ">" for ">=": the replacement comes a tick late
respawn_branch_late(S, rid, idx, t) ==
  LET inst == S.inst[rid]
      m == inst.mobs[idx]
  IN  IF ~dict_has(inst.dead_at, m.id)
      THEN {[S EXCEPT !.inst[rid].dead_at = dict_set(@, m.id, t)]}
      ELSE IF t - dict_get(inst.dead_at, m.id, 0) > m.respawn
      THEN {[S EXCEPT !.inst[rid].mobs = Append(remove_at(@, idx), Mob(m.template_id, rid, S.nid, ai)),
                      !.inst[rid].dead_at = dict_del(@, m.id),
                      !.nid = @ + 1,
                      !.log = @ \cup {Obs("respawn", "none", m.id, t - dict_get(inst.dead_at, m.id, 0), m.template_id)}]
            : ai \in 0..MOB_AI_PERIOD}
      ELSE {S}

\* the dead/respawn branch that stamps the death time on every tick before the delay
\* has run out, not only on the first
respawn_branch_restamp(S, rid, idx, t) ==
  LET inst == S.inst[rid]
      m == inst.mobs[idx]
  IN  IF dict_has(inst.dead_at, m.id) /\ t - dict_get(inst.dead_at, m.id, 0) >= m.respawn
      THEN {[S EXCEPT !.inst[rid].mobs = Append(remove_at(@, idx), Mob(m.template_id, rid, S.nid, ai)),
                      !.inst[rid].dead_at = dict_del(@, m.id),
                      !.nid = @ + 1,
                      !.log = @ \cup {Obs("respawn", "none", m.id, t - dict_get(inst.dead_at, m.id, 0), m.template_id)}]
            : ai \in 0..MOB_AI_PERIOD}
      ELSE {[S EXCEPT !.inst[rid].dead_at = dict_set(@, m.id, t)]}

\* heartbeat, the dead/respawn branch for the dead mob at index idx of room rid:
\* the states it can leave (S is [pl, inst, nid, log])
respawn_branch(S, rid, idx, t) ==
  LET inst == S.inst[rid]
      m == inst.mobs[idx]
  IN  IF ~dict_has(inst.dead_at, m.id)
      THEN {[S EXCEPT !.inst[rid].dead_at = dict_set(@, m.id, t)]}
      ELSE IF t - dict_get(inst.dead_at, m.id, 0) >= m.respawn
      THEN {[S EXCEPT !.inst[rid].mobs = Append(remove_at(@, idx), Mob(m.template_id, rid, S.nid, ai)),
                      !.inst[rid].dead_at = dict_del(@, m.id),
                      !.nid = @ + 1,
                      !.log = @ \cup {Obs("respawn", "none", m.id, t - dict_get(inst.dead_at, m.id, 0), m.template_id)}]
            : ai \in 0..MOB_AI_PERIOD}
      ELSE {S}

\* heartbeat, the skill cooldowns of one mob
tick_skill_cd(d) == {<<pr[1], pr[2] - 1>> : pr \in {x \in d : Max(0, x[2] - 1) > 0}}

\* candidates that are in the room, dead or alive
candidates_with_dead(pl, conn, rid) ==
  {conn[i] : i \in {j \in 1..Len(conn) : pl[conn[j]].room = rid}}

\* heartbeat, the candidates of a mob of room rid: [p for p in PLAYERS.values()
\* if p.room==rid and p.alive]
candidates_of(pl, conn, rid) ==
  {conn[i] : i \in {j \in 1..Len(conn) : pl[conn[j]].room = rid /\ pl[conn[j]].alive}}

\* a live branch in which every monster takes its turn, provoked or not
live_branch_unprovoked(S, rid, idx, conn, t) ==
  LET m0 == S.inst[rid].mobs[idx]
      m1 == tick_effects_on_entity([m0 EXCEPT !.skill_cd = tick_skill_cd(@)], t)
      m2 == [m1 EXCEPT !.ai_cd = Max(0, @ - 1)]
      candidates == candidates_of(S.pl, conn, rid)
      ready == ready_skills(m2)
  IN  IF m2.ai_cd <= 0
      THEN IF candidates = {}
           THEN {[S EXCEPT !.inst[rid].mobs[idx] = [m2 EXCEPT !.ai_cd = j]] : j \in AiResets}
           ELSE {LET r == mob_ai_attack(m2, S.pl[c[1]], c[2], c[3], c[4], t)
                 IN  [S EXCEPT !.inst[rid].mobs[idx] = [r.m EXCEPT !.ai_cd = c[5]],
                               !.pl[c[1]] = r.tgt,
                               !.log = @ \cup {Obs("mobact", c[1], m2.id, c[2], r.what),
                                                Obs("mobtgt", c[1], m2.id,
                                                    IF S.pl[c[1]].alive THEN 1 ELSE 0,
                                                    S.pl[c[1]].room)}]
                 : c \in candidates \X (IF ready = {} THEN {0} ELSE ready)
                         \X RollValues \X RollValues \X AiResets}
      ELSE {[S EXCEPT !.inst[rid].mobs[idx] = m2]}

\* heartbeat, the live branch for the mob at index idx of room rid; conn is the
\* sequence of connected sockets.  The log names the target, the skill chosen (its
\* index, 0 for the basic attack) and what the target was when it was chosen.
live_branch(S, rid, idx, conn, t) ==
  LET m0 == S.inst[rid].mobs[idx]
      m1 == tick_effects_on_entity([m0 EXCEPT !.skill_cd = tick_skill_cd(@)], t)
      m2 == [m1 EXCEPT !.ai_cd = Max(0, @ - 1)]
      candidates == candidates_of(S.pl, conn, rid)
      ready == ready_skills(m2)
  IN  IF (m2.aggro \/ in_combat(m2, t)) /\ m2.ai_cd <= 0
      THEN IF candidates = {}
           THEN {[S EXCEPT !.inst[rid].mobs[idx] = [m2 EXCEPT !.ai_cd = j]] : j \in AiResets}
           ELSE {LET r == mob_ai_attack(m2, S.pl[c[1]], c[2], c[3], c[4], t)
                 IN  [S EXCEPT !.inst[rid].mobs[idx] = [r.m EXCEPT !.ai_cd = c[5]],
                               !.pl[c[1]] = r.tgt,
                               !.log = @ \cup {Obs("mobact", c[1], m2.id, c[2], r.what),
                                                Obs("mobtgt", c[1], m2.id,
                                                    IF S.pl[c[1]].alive THEN 1 ELSE 0,
                                                    S.pl[c[1]].room)}]
                 : c \in candidates \X (IF ready = {} THEN {0} ELSE ready)
                         \X RollValues \X RollValues \X AiResets}
      ELSE {[S EXCEPT !.inst[rid].mobs[idx] = m2]}

\* a mobs loop whose body does not look at m.alive: the dead are processed as the living
mob_step_dead_too(S, rid, id, conn, fault, t) ==
  LET idx == index_of(S.inst[rid].mobs, id)
      S1 == [S EXCEPT !.log = @ \cup {Obs("mtick", "none", id, 0, "")}]
  IN  IF id = fault THEN {[S EXCEPT !.log = @ \cup {Obs("caught", "none", id, 0, "")}]}
      ELSE live_branch(S1, rid, idx, conn, t)

\* heartbeat, the body of the mobs loop for the mob object id of room rid.  fault is
\* the id of the mob whose processing raises (0: none); the try/except of the loop
\* catches it, and the exception is taken to be raised as the body starts.
mob_step(S, rid, id, conn, fault, t) ==
  LET idx == index_of(S.inst[rid].mobs, id)
      S1 == [S EXCEPT !.log = @ \cup {Obs("mtick", "none", id, 0, "")}]
  IN  IF id = fault THEN {[S EXCEPT !.log = @ \cup {Obs("caught", "none", id, 0, "")}]}
      ELSE IF ~S.inst[rid].mobs[idx].alive THEN respawn_branch(S1, rid, idx, t)
      ELSE live_branch(S1, rid, idx, conn, t)

\* heartbeat, the mobs loop of one room over the snapshot ids, from position i on
RECURSIVE mobs_loop(_, _, _, _, _, _, _)
mobs_loop(SS, rid, ids, i, conn, fault, t) ==
  IF i > Len(ids) THEN SS
  ELSE mobs_loop(UNION {mob_step(S, rid, ids[i], conn, fault, t) : S \in SS},
                 rid, ids, i + 1, conn, fault, t)

\* heartbeat, the loop over ROOM_INSTANCES from room r of SpawnRooms on
RECURSIVE rooms_loop(_, _, _, _, _)
rooms_loop(SS, r, conn, fault, t) ==
  IF r > Len(SpawnRooms) THEN SS
  ELSE LET rid == SpawnRooms[r]
           S0 == CHOOSE S \in SS : TRUE
           ids == [i \in 1..Len(S0.inst[rid].mobs) |-> S0.inst[rid].mobs[i].id]
       IN  rooms_loop(mobs_loop(SS, rid, ids, 1, conn, fault, t), r + 1, conn, fault, t)

\* a sleeping task whose timer has run out
due(task) == task.st = "sleeping" /\ task.wake <= now
TaskDue == \E ws \in WS : \E k \in 1..MaxTasks : due(autoTasks[ws][k]) \/ due(restTasks[ws][k])

NoFault == [kind |-> "none", ws |-> "none", id |-> 0]
PlayerFaults == {[kind |-> "player", ws |-> PLAYERS[i], id |-> 0] : i \in 1..Len(PLAYERS)}
mob_ids(inst) == UNION {{inst[rid].mobs[i].id : i \in 1..Len(inst[rid].mobs)} : rid \in Rooms}
MobFaults == {[kind |-> "mob", ws |-> "none", id |-> id] : id \in mob_ids(ROOM_INSTANCES)}

\* _tick_effects_on_entity for the player of socket ws with the effect list effs, as
\* the order of what it does: the first loop awaits send_line_fn for the line of
\* every dot or hot that fires, as it fires; the second loop then reverts and removes
\* the effects whose time is up.  n numbers the events in that order.
effect_log(ws, effs) ==
  LET firing == {i \in 1..Len(effs) : effs[i].next_tick_in - 1 <= 0 /\ effs[i].kind \in {"dot", "hot"}}
      expiring == {i \in 1..Len(effs) : effs[i].remaining - 1 <= 0}
  IN  {Obs("report", ws, i, Cardinality({j \in firing : j <= i}), effs[i].kind) : i \in firing}
      \cup {Obs("expire", ws, i, Cardinality(firing) + Cardinality({j \in expiring : j <= i}),
                 IF effs[i].mod # {} THEN "revert" ELSE "") : i \in expiring}

\* the effect advances of the first upto players of the loop
effects_log(upto) == UNION {effect_log(PLAYERS[i], player[PLAYERS[i]].effects) : i \in 1..upto}

\* heartbeat: one iteration of the loop (the sleep, then the tick's body) while the
\* clock is below limit; f names the entity whose processing raises, if any
heartbeat(limit, f) ==
  /\ hbRunning /\ now < limit /\ ~TaskDue
  /\ LET t == now + 1
         r == players_loop(player, PLAYERS, 1, f.ws, t)
     IN  /\ now' = t
         /\ IF r.raised
            THEN /\ player' = r.pl
                 /\ hbRunning' = FALSE
                 /\ ev' = [op |-> "heartbeat", ws |-> f.ws,
                           log |-> {Obs("raised", f.ws, 0, 0, "")}
                                   \cup {Obs("ptick", PLAYERS[i], 0, 0, "") : i \in 1..r.upto}
                                   \cup effects_log(r.upto)]
                 /\ UNCHANGED <<ROOM_INSTANCES, nextMobId>>
            ELSE \E S \in rooms_loop({[pl |-> r.pl, inst |-> ROOM_INSTANCES, nid |-> nextMobId,
                                       log |-> {Obs("ptick", PLAYERS[i], 0, 0, "") : i \in 1..r.upto}
                                               \cup effects_log(r.upto)]},
                                     1, PLAYERS, f.id, t) :
                   /\ player' = S.pl
                   /\ ROOM_INSTANCES' = S.inst
                   /\ nextMobId' = S.nid
                   /\ hbRunning' = TRUE
                   /\ ev' = [op |-> "heartbeat", ws |-> "none", log |-> S.log]
  /\ UNCHANGED <<PLAYERS, autoTasks, restTasks, cmd>>

\* ------------------------------------------------------------------ commands
Idle == [op |-> "idle", pc |-> "", tg |-> 0, dest |-> "none"]
connected(ws) == \E i \in 1..Len(PLAYERS) : PLAYERS[i] = ws
\* ws_handler reads the next message of a socket when the last command returned
can_issue(ws) == connected(ws) /\ cmd[ws] = Idle

Event(op, ws, log) == [op |-> op, ws |-> ws, log |-> log]

\* PLAYER_AUTO_SWING = 2.5 seconds, in ticks of the clock: 2 or 3, by the phase of
\* the sleep against the heartbeat
AUTO_SWING_MIN == 2
AUTO_SWING_MAX == 3

\* A task: st is where its coroutine stands ("sleeping" in asyncio.sleep until wake,
\* "sending" in an await of send, "cancelled" with CancelledError pending, "done");
\* i counts the iterations made; born, the time of create_task, and tgt, the mob
\* object the player engaged when the task was created, are observation only.
NoTask == [st |-> "none", wake |-> 0, i |-> 0, born |-> 0, tgt |-> 0]
\* not task.done()
running(task) == task.st \in {"sleeping", "sending", "cancelled"}
free_slot(tasks) == CHOOSE k \in 1..MaxTasks :
                      /\ ~running(tasks[k])
                      /\ \A j \in 1..MaxTasks : ~running(tasks[j]) => k <= j
has_free_slot(tasks) == \E k \in 1..MaxTasks : ~running(tasks[k])

\* p._auto_task and not p._auto_task.done()
auto_running(p, tasks) == p.auto_task # 0 /\ running(tasks[p.auto_task])

\* the swing of cmd_attack, cmd_kill and _auto_attack_loop on mob m:
\* dmg, apply_damage, and mob_death when the mob is not alive afterwards
strike(p, m, t) ==
  LET dmg == Max(0, (p.power + (STATS.STR \div 5)) - m.defense)
      m1 == apply_damage(m, dmg, t)
  IN  IF ~m1.alive THEN [p |-> mob_death_killer(p), m |-> mob_death_mob(m1), died |-> TRUE]
      ELSE [p |-> p, m |-> m1, died |-> FALSE]

\* a cmd_attack that notes the name as the player's target before it looks for the mob
cmd_attack_target_first(ws, q) ==
  /\ can_issue(ws)
  /\ LET p == player[ws]
         mobs == mobs_of(ROOM_INSTANCES, p.room)
         i == first_match(mobs, q)
     IN  IF i = 0
         THEN /\ ev' = Event("attack", ws, {Obs("error", ws, 0, 0, "No such mob here.")})
              /\ player' = [player EXCEPT ![ws].target = q]
              /\ UNCHANGED ROOM_INSTANCES
         ELSE LET r == strike([p EXCEPT !.target = mobs[i].name], mobs[i], now)
              IN  /\ player' = [player EXCEPT ![ws] = r.p]
                  /\ ROOM_INSTANCES' = [ROOM_INSTANCES EXCEPT ![p.room].mobs[i] = r.m]
                  /\ ev' = Event("attack", ws,
                                 {Obs("strike", ws, mobs[i].id, 0, IF mobs[i].alive THEN "live" ELSE "dead")}
                                 \cup IF r.died THEN {Obs("death", ws, mobs[i].id, 0, "")} ELSE {})
  /\ UNCHANGED <<now, hbRunning, PLAYERS, nextMobId, autoTasks, restTasks, cmd>>

\* cmd_attack with args[0].lower() = q
cmd_attack(ws, q) ==
  /\ can_issue(ws)
  /\ LET p == player[ws]
         mobs == mobs_of(ROOM_INSTANCES, p.room)
         i == first_match(mobs, q)
     IN  IF i = 0
         THEN /\ ev' = Event("attack", ws, {Obs("error", ws, 0, 0, "No such mob here.")})
              /\ UNCHANGED <<player, ROOM_INSTANCES>>
         ELSE LET r == strike([p EXCEPT !.target = mobs[i].name], mobs[i], now)
              IN  /\ player' = [player EXCEPT ![ws] = r.p]
                  /\ ROOM_INSTANCES' = [ROOM_INSTANCES EXCEPT ![p.room].mobs[i] = r.m]
                  /\ ev' = Event("attack", ws,
                                 {Obs("strike", ws, mobs[i].id, 0, IF mobs[i].alive THEN "live" ELSE "dead")}
                                 \cup IF r.died THEN {Obs("death", ws, mobs[i].id, 0, "")} ELSE {})
  /\ UNCHANGED <<now, hbRunning, PLAYERS, nextMobId, autoTasks, restTasks, cmd>>

\* _pick_best_target_for_kill: index of the first aggressive live mob, else of the
\* first live mob, else 0
pick_best_target_for_kill(mobs) ==
  LET live == {i \in 1..Len(mobs) : mobs[i].alive}
      aggro == {i \in live : mobs[i].aggro}
      pool == IF aggro # {} THEN aggro ELSE live
  IN  IF pool = {} THEN 0 ELSE CHOOSE i \in pool : \A j \in pool : i <= j

\* cmd_kill up to its first await (the send of "You engage ..."); q is the lowered
\* target name, <<>> when no name is given
kill_begin(ws, q) ==
  /\ can_issue(ws)
  /\ LET p == player[ws]
         mobs == mobs_of(ROOM_INSTANCES, p.room)
         i == IF q # <<>> THEN first_match(mobs, q) ELSE pick_best_target_for_kill(mobs)
     IN  IF i = 0
         THEN /\ ev' = Event("kill", ws, {Obs("error", ws, 0, 0, "No enemies here.")})
              /\ UNCHANGED <<player, cmd>>
         ELSE /\ player' = [player EXCEPT ![ws].target = mobs[i].name]
              /\ cmd' = [cmd EXCEPT ![ws] = [op |-> "kill", pc |-> "engaged", tg |-> mobs[i].id,
                                             dest |-> "none"]]
              /\ ev' = Event("kill", ws, {})
  /\ UNCHANGED <<now, hbRunning, PLAYERS, ROOM_INSTANCES, nextMobId, autoTasks, restTasks>>

\* where the mob object id is: <<room, index>>, or <<"none", 0>> when no list holds it
locate(inst, id) ==
  LET at == {x \in Rooms \X (1..Cardinality(mob_ids(inst))) :
               x[2] <= Len(inst[x[1]].mobs) /\ inst[x[1]].mobs[x[2]].id = id}
  IN  IF at = {} THEN <<"none", 0>> ELSE CHOOSE x \in at : TRUE

\* asyncio.create_task(_auto_attack_loop(p)): the task sleeps PLAYER_AUTO_SWING, d ticks
new_auto_task(d, id) == [st |-> "sleeping", wake |-> now + d, i |-> 0, born |-> now, tgt |-> id]

\* task.cancel() on a suspended task: CancelledError is raised in it when it next runs
cancel(task) == [task EXCEPT !.st = "cancelled"]

\* cmd_kill, the "start/restart auto-loop" part, when no task is running: create one
start_auto(ws, p, d) ==
  LET k == free_slot(autoTasks[ws])
  IN  /\ has_free_slot(autoTasks[ws])
      /\ autoTasks' = [autoTasks EXCEPT ![ws][k] = new_auto_task(d, cmd[ws].tg)]
      /\ player' = [player EXCEPT ![ws] = [p EXCEPT !.auto_task = k]]
      /\ cmd' = [cmd EXCEPT ![ws] = Idle]

\* a cmd_kill that creates the new task without cancelling the running one
restart_auto_no_cancel(ws, p) ==
  \E d \in AUTO_SWING_MIN..AUTO_SWING_MAX : start_auto(ws, p, d)

\* cmd_kill, the "start/restart auto-loop" part, when a task is running: cancel it
\* and await it
restart_auto(ws, p) ==
  /\ autoTasks' = [autoTasks EXCEPT ![ws][p.auto_task] = cancel(@)]
  /\ player' = [player EXCEPT ![ws] = p]
  /\ cmd' = [cmd EXCEPT ![ws].pc = "await_auto"]

\* cmd_kill from the send of "You engage ..." to its next await: the immediate
\* swing at target_obj, then mob_death or the start of the auto-loop
kill_strike(ws) ==
  /\ cmd[ws].op = "kill" /\ cmd[ws].pc = "engaged"
  /\ LET p == player[ws]
         id == cmd[ws].tg
         at == locate(ROOM_INSTANCES, id)
     IN  IF at[1] = "none"
         THEN \* the object left its room's list (it was dead): mob_death again
              /\ player' = [player EXCEPT ![ws] = mob_death_killer(p)]
              /\ cmd' = [cmd EXCEPT ![ws] = Idle]
              /\ ev' = Event("kill", ws, {Obs("strike", ws, id, 0, "dead"), Obs("death", ws, id, 0, "")})
              /\ UNCHANGED <<ROOM_INSTANCES, autoTasks>>
         ELSE LET m == ROOM_INSTANCES[at[1]].mobs[at[2]]
                  r == strike(p, m, now)
              IN  /\ ROOM_INSTANCES' = [ROOM_INSTANCES EXCEPT ![at[1]].mobs[at[2]] = r.m]
                  /\ ev' = Event("kill", ws,
                                 {Obs("strike", ws, id, 0, IF m.alive THEN "live" ELSE "dead")}
                                 \cup IF r.died THEN {Obs("death", ws, id, 0, "")} ELSE {})
                  /\ IF r.died
                     THEN /\ player' = [player EXCEPT ![ws] = r.p]
                          /\ cmd' = [cmd EXCEPT ![ws] = Idle]
                          /\ UNCHANGED autoTasks
                     ELSE IF auto_running(r.p, autoTasks[ws])
                     THEN restart_auto(ws, r.p)
                     ELSE \E d \in AUTO_SWING_MIN..AUTO_SWING_MAX : start_auto(ws, r.p, d)
  /\ UNCHANGED <<now, hbRunning, PLAYERS, nextMobId, restTasks>>

\* cmd_kill after "await p._auto_task": the new task is created
kill_resume(ws) ==
  /\ cmd[ws].op = "kill" /\ cmd[ws].pc = "await_auto"
  /\ autoTasks[ws][player[ws].auto_task].st = "done"
  /\ \E d \in AUTO_SWING_MIN..AUTO_SWING_MAX : start_auto(ws, player[ws], d)
  /\ ev' = Event("kill", ws, {Obs("engage", ws, 0, 0, "")})
  /\ UNCHANGED <<now, hbRunning, PLAYERS, ROOM_INSTANCES, nextMobId, restTasks>>

\* _auto_attack_loop: one iteration after its sleep, for the task in slot k
auto_swing(ws, k) ==
  /\ due(autoTasks[ws][k])
  /\ LET p == player[ws]
         mobs == mobs_of(ROOM_INSTANCES, p.room)
         i == IF p.target = <<>> THEN 0 ELSE first_match(mobs, lower(p.target))
         done == [autoTasks EXCEPT ![ws][k].st = "done"]
         at == locate(ROOM_INSTANCES, autoTasks[ws][k].tgt)
         \* the engaged mob object is dead (or replaced) when the swing is made
         stale == at[1] = "none" \/ ~ROOM_INSTANCES[at[1]].mobs[at[2]].alive
     IN  IF ~p.alive \/ i = 0
         THEN /\ autoTasks' = done
              /\ ev' = Event("auto", ws, {Obs("auto_end", ws, 0, k, "")})
              /\ UNCHANGED <<player, ROOM_INSTANCES>>
         ELSE LET r == strike(p, mobs[i], now)
              IN  /\ player' = [player EXCEPT ![ws] = r.p]
                  /\ ROOM_INSTANCES' = [ROOM_INSTANCES EXCEPT ![p.room].mobs[i] = r.m]
                  /\ ev' = Event("auto", ws,
                                 {Obs("swing", ws, mobs[i].id, k, IF stale THEN "stale" ELSE "")}
                                 \cup IF r.died THEN {Obs("death", ws, mobs[i].id, 0, "")} ELSE {})
                  /\ IF r.died THEN autoTasks' = done
                     ELSE \E d \in AUTO_SWING_MIN..AUTO_SWING_MAX :
                            autoTasks' = [autoTasks EXCEPT ![ws][k].wake = now + d]
  /\ UNCHANGED <<now, hbRunning, PLAYERS, nextMobId, restTasks, cmd>>

\* _auto_attack_loop: CancelledError is raised at the sleep and the task returns
auto_cancelled(ws, k) ==
  /\ autoTasks[ws][k].st = "cancelled"
  /\ autoTasks' = [autoTasks EXCEPT ![ws][k].st = "done"]
  /\ ev' = Event("auto", ws, {Obs("auto_end", ws, 0, k, "cancelled")})
  /\ UNCHANGED <<now, hbRunning, PLAYERS, player, ROOM_INSTANCES, nextMobId, restTasks, cmd>>

\* handle_command, verb 'go' with direction d, up to "await p._auto_task"
go_begin(ws, d) ==
  /\ can_issue(ws)
  /\ LET p == player[ws]
         dest == ExitOf(p.room, d)
     IN  IF dest = "none"
         THEN /\ ev' = Event("go", ws, {Obs("error", ws, 0, 0, "You can't go that way.")})
              /\ UNCHANGED <<player, autoTasks, cmd>>
         ELSE IF in_combat(p, now)
         THEN /\ ev' = Event("go", ws, {Obs("error", ws, 0, 0, "You can't flee while in combat!")})
              /\ UNCHANGED <<player, autoTasks, cmd>>
         ELSE IF auto_running(p, autoTasks[ws])
         THEN /\ autoTasks' = [autoTasks EXCEPT ![ws][p.auto_task] = cancel(@)]
              /\ cmd' = [cmd EXCEPT ![ws] = [op |-> "go", pc |-> "await_auto", tg |-> 0, dest |-> dest]]
              /\ ev' = Event("go", ws, {})
              /\ UNCHANGED player
         ELSE /\ player' = [player EXCEPT ![ws].room = dest]
              /\ ev' = Event("go", ws, {Obs("moved", ws, 0, 0, dest)})
              /\ UNCHANGED <<autoTasks, cmd>>
  /\ UNCHANGED <<now, hbRunning, PLAYERS, ROOM_INSTANCES, nextMobId, restTasks>>

\* handle_command, verb 'recall', up to "await p._auto_task"
recall_begin(ws) ==
  /\ can_issue(ws)
  /\ LET p == player[ws]
     IN  IF in_combat(p, now)
         THEN /\ ev' = Event("recall", ws, {Obs("error", ws, 0, 0, "You cannot recall during combat!")})
              /\ UNCHANGED <<player, autoTasks, cmd>>
         ELSE IF auto_running(p, autoTasks[ws])
         THEN /\ autoTasks' = [autoTasks EXCEPT ![ws][p.auto_task] = cancel(@)]
              /\ cmd' = [cmd EXCEPT ![ws] = [op |-> "recall", pc |-> "await_auto", tg |-> 0,
                                             dest |-> DefaultRoom]]
              /\ ev' = Event("recall", ws, {})
              /\ UNCHANGED player
         ELSE /\ player' = [player EXCEPT ![ws].room = DefaultRoom]
              /\ ev' = Event("recall", ws, {Obs("moved", ws, 0, 0, DefaultRoom)})
              /\ UNCHANGED <<autoTasks, cmd>>
  /\ UNCHANGED <<now, hbRunning, PLAYERS, ROOM_INSTANCES, nextMobId, restTasks>>

\* a 'go' or 'recall' that moves on after task.cancel() without the task having ended
move_resume_no_await(ws) ==
  /\ cmd[ws].op \in {"go", "recall"} /\ cmd[ws].pc = "await_auto"
  /\ player' = [player EXCEPT ![ws].auto_task = 0, ![ws].room = cmd[ws].dest]
  /\ cmd' = [cmd EXCEPT ![ws] = Idle]
  /\ ev' = Event(cmd[ws].op, ws, {Obs("moved", ws, 0, 0, cmd[ws].dest)})
  /\ UNCHANGED <<now, hbRunning, PLAYERS, ROOM_INSTANCES, nextMobId, autoTasks, restTasks>>

\* handle_command, verbs 'go' and 'recall' after "await p._auto_task":
\* p._auto_task = None and the move
move_resume(ws) ==
  /\ cmd[ws].op \in {"go", "recall"} /\ cmd[ws].pc = "await_auto"
  /\ autoTasks[ws][player[ws].auto_task].st = "done"
  /\ player' = [player EXCEPT ![ws].auto_task = 0, ![ws].room = cmd[ws].dest]
  /\ cmd' = [cmd EXCEPT ![ws] = Idle]
  /\ ev' = Event(cmd[ws].op, ws, {Obs("moved", ws, 0, 0, cmd[ws].dest)})
  /\ UNCHANGED <<now, hbRunning, PLAYERS, ROOM_INSTANCES, nextMobId, autoTasks, restTasks>>

\* ws_handler when the socket has closed: the loop over the messages ends and the
\* finally clause pops the socket from PLAYERS
disconnect(ws) == SelectSeq(PLAYERS, LAMBDA x : x # ws)

\* handle_command, verb 'quit', up to "await p._auto_task"; with no running task,
\* through p.ws.close() and the end of ws_handler
quit_begin(ws) ==
  /\ can_issue(ws)
  /\ LET p == player[ws]
     IN  IF auto_running(p, autoTasks[ws])
         THEN /\ autoTasks' = [autoTasks EXCEPT ![ws][p.auto_task] = cancel(@)]
              /\ cmd' = [cmd EXCEPT ![ws] = [op |-> "quit", pc |-> "await_auto", tg |-> 0,
                                             dest |-> "none"]]
              /\ ev' = Event("quit", ws, {})
              /\ UNCHANGED PLAYERS
         ELSE /\ PLAYERS' = disconnect(ws)
              /\ ev' = Event("quit", ws, {Obs("closed", ws, 0, 0, "")})
              /\ UNCHANGED <<autoTasks, cmd>>
  /\ UNCHANGED <<now, hbRunning, player, ROOM_INSTANCES, nextMobId, restTasks>>

\* handle_command, verb 'quit', after "await p._auto_task": p._auto_task = None,
\* p.ws.close() and the end of ws_handler
quit_resume(ws) ==
  /\ cmd[ws].op = "quit" /\ cmd[ws].pc = "await_auto"
  /\ autoTasks[ws][player[ws].auto_task].st = "done"
  /\ player' = [player EXCEPT ![ws].auto_task = 0]
  /\ PLAYERS' = disconnect(ws)
  /\ cmd' = [cmd EXCEPT ![ws] = Idle]
  /\ ev' = Event("quit", ws, {Obs("closed", ws, 0, 0, "")})
  /\ UNCHANGED <<now, hbRunning, ROOM_INSTANCES, nextMobId, autoTasks, restTasks>>

\* ws_handler when the connection drops while it waits for a message: the loop over
\* the messages ends and the finally clause saves the player, pops the socket from
\* PLAYERS and closes it
drop(ws) ==
  /\ can_issue(ws)
  /\ PLAYERS' = disconnect(ws)
  /\ ev' = Event("drop", ws, {Obs("closed", ws, 0, 0, "")})
  /\ UNCHANGED <<now, hbRunning, player, ROOM_INSTANCES, nextMobId, autoTasks, restTasks, cmd>>

\* the test with its "not" dropped: p._rest_task and p._rest_task.done()
rest_running_negated(p, tasks) == p.rest_task # 0 /\ ~running(tasks[p.rest_task])

\* p._rest_task and not p._rest_task.done()
rest_running(p, tasks) == p.rest_task # 0 /\ running(tasks[p.rest_task])

\* handle_command, verb 'rest', up to the send of "You begin to rest..."
rest_begin(ws) ==
  /\ can_issue(ws)
  /\ LET p == player[ws]
     IN  IF in_combat(p, now)
         THEN /\ ev' = Event("rest", ws, {Obs("error", ws, 0, 0, "You cannot rest during combat!")})
              /\ UNCHANGED cmd
         ELSE IF rest_running(p, restTasks[ws])
         THEN /\ ev' = Event("rest", ws, {Obs("error", ws, 0, 0, "You are already resting.")})
              /\ UNCHANGED cmd
         ELSE /\ cmd' = [cmd EXCEPT ![ws] = [op |-> "rest", pc |-> "begin", tg |-> 0, dest |-> "none"]]
              /\ ev' = Event("rest", ws, {})
  /\ UNCHANGED <<now, hbRunning, PLAYERS, player, ROOM_INSTANCES, nextMobId, autoTasks, restTasks>>

\* handle_command, verb 'rest', after the send: asyncio.create_task(do_rest(p));
\* the task sleeps 10 seconds before its first pulse
rest_create(ws) ==
  /\ cmd[ws].op = "rest" /\ cmd[ws].pc = "begin"
  /\ has_free_slot(restTasks[ws])
  /\ LET k == free_slot(restTasks[ws])
     IN  /\ restTasks' = [restTasks EXCEPT ![ws][k] = [st |-> "sleeping", wake |-> now + REST_SLEEP, i |-> 0, born |-> now, tgt |-> 0]]
         /\ player' = [player EXCEPT ![ws].rest_task = k]
         /\ ev' = Event("rest", ws, {Obs("rest_start", ws, 0, k, "")})
  /\ cmd' = [cmd EXCEPT ![ws] = Idle]
  /\ UNCHANGED <<now, hbRunning, PLAYERS, ROOM_INSTANCES, nextMobId, autoTasks>>

\* do_rest: the sleep of an iteration is over, for the task in slot k: the check and
\* the pulse, up to the send of "Resting...".  When disturbed the task ends (its
\* last send is not modelled as a step) and the finally clause runs.
rest_pulse(ws, k) ==
  /\ due(restTasks[ws][k])
  /\ LET p == player[ws]
         task == restTasks[ws][k]
     IN  IF in_combat(p, now) \/ ~p.alive
         THEN /\ restTasks' = [restTasks EXCEPT ![ws][k].st = "done"]
              /\ player' = [player EXCEPT ![ws].rest_task = 0]
              /\ ev' = Event("do_rest", ws, {Obs("rest_end", ws, 0, k, "disturbed")})
         ELSE LET hp1 == clamp(p.hp + (p.max_hp \div REST_FRACTION), 0, p.max_hp)
              IN  /\ restTasks' = [restTasks EXCEPT ![ws][k] = [@ EXCEPT !.st = "sending", !.i = task.i + 1]]
                  /\ player' = [player EXCEPT ![ws].hp = hp1]
                  /\ ev' = Event("do_rest", ws,
                                 {Obs("pulse", ws, 0, k, IF hp1 > p.hp THEN "healed" ELSE "same")})
  /\ UNCHANGED <<now, hbRunning, PLAYERS, ROOM_INSTANCES, nextMobId, autoTasks, cmd>>

\* a do_rest whose loop has no last iteration: after every send the next sleep
rest_next_endless(ws, k) ==
  /\ restTasks[ws][k].st = "sending"
  /\ restTasks' = [restTasks EXCEPT ![ws][k] = [@ EXCEPT !.st = "sleeping", !.wake = now + REST_SLEEP]]
  /\ ev' = Event("do_rest", ws, {})
  /\ UNCHANGED <<now, hbRunning, PLAYERS, player, ROOM_INSTANCES, nextMobId, autoTasks, cmd>>

\* do_rest after the send of "Resting...": the next sleep, or the end of the loop
\* and the finally clause
rest_next(ws, k) ==
  /\ restTasks[ws][k].st = "sending"
  /\ IF restTasks[ws][k].i >= REST_PULSES
     THEN /\ restTasks' = [restTasks EXCEPT ![ws][k].st = "done"]
          /\ player' = [player EXCEPT ![ws].rest_task = 0]
          /\ ev' = Event("do_rest", ws, {Obs("rest_end", ws, 0, k, "finished")})
     ELSE /\ restTasks' = [restTasks EXCEPT ![ws][k] = [@ EXCEPT !.st = "sleeping", !.wake = now + REST_SLEEP]]
          /\ ev' = Event("do_rest", ws, {})
          /\ UNCHANGED player
  /\ UNCHANGED <<now, hbRunning, PLAYERS, ROOM_INSTANCES, nextMobId, autoTasks, cmd>>

\* cmd_use, the target lookup: a live mob of the room whose name starts with tnorm,
\* else a player of the room whose name does; the actor when the ability targets
\* 'self'.  tq is args[1] lowered (<<>>: not given, p.target is used).
NoTarget == [kind |-> "none", rid |-> "none", idx |-> 0, ws |-> "none"]
use_target(ws, ab, tq) ==
  LET p == player[ws]
      target_name == IF tq # <<>> THEN tq ELSE p.target
      tnorm == lower(target_name)
      mobs == mobs_of(ROOM_INSTANCES, p.room)
      i == IF target_name = <<>> THEN 0 ELSE first_match(mobs, tnorm)
      js == {j \in 1..Len(PLAYERS) : /\ target_name # <<>>
                                     /\ player[PLAYERS[j]].room = p.room
                                     /\ startswith(lower(PlayerName[PLAYERS[j]]), tnorm)}
  IN  IF ab.target = "self" THEN [NoTarget EXCEPT !.kind = "player", !.ws = ws]
      ELSE IF i # 0 THEN [NoTarget EXCEPT !.kind = "mob", !.rid = p.room, !.idx = i]
      ELSE IF js # {}
      THEN [NoTarget EXCEPT !.kind = "player", !.ws = PLAYERS[CHOOSE j \in js : \A x \in js : j <= x]]
      ELSE NoTarget

get_ent(pl, inst, T) == IF T.kind = "mob" THEN inst[T.rid].mobs[T.idx] ELSE pl[T.ws]
set_ent(W, T, e) == IF T.kind = "mob" THEN [W EXCEPT !.inst[T.rid].mobs[T.idx] = e]
                    ELSE [W EXCEPT !.pl[T.ws] = e]

\* cmd_use, from "out=[]" to the cooldown: the world W = [pl, inst, log] after the
\* ability aid of actor ws acts on target T; r1, r2 are the rolls of try_dodge_block.
\* done is FALSE when the function returned early (dodged or blocked).
use_apply(W, ws, aid, T, r1, r2, t) ==
  LET ab == ABILITIES[aid]
      p == W.pl[ws]
      tg == get_ent(W.pl, W.inst, T)
      power == p.power + ab.flat + (STATS.STR \div 4)
      res == IF T.kind = "player" THEN try_dodge_block(r1, r2) ELSE "none"
      Out(W1, done, what) == [pl |-> W1.pl, inst |-> W1.inst,
                              log |-> W1.log \cup {Obs("use", ws, IF T.kind = "mob" THEN tg.id ELSE 0, 0, what),
                                                   Obs("on", ws, 0, 0, IF T.kind = "mob" THEN "mob" ELSE T.ws)},
                              done |-> done]
  IN  CASE ab.type = "damage" ->
             IF res # "none" THEN Out(W, FALSE, res)
             ELSE LET tg1 == apply_damage(tg, Max(0, power + ab.amount - tg.defense), t)
                      W1 == set_ent(W, T, tg1)
                  IN  IF ~tg1.alive /\ T.kind = "mob"
                      THEN Out([W1 EXCEPT !.inst[T.rid].mobs[T.idx] = mob_death_mob(@),
                                          !.pl[ws] = mob_death_killer(@),
                                          !.log = @ \cup {Obs("death", ws, tg.id, 0, "")}], TRUE, "damage")
                      ELSE Out(W1, TRUE, "damage")
        [] ab.type \in {"dot", "hot"} ->
             Out(set_ent(W, T, add_effect(tg, Effect(aid, ab.type, ab.per_tick, ab.duration, ab.tick, {}), t)),
                 TRUE, ab.type)
        [] ab.type = "buff" ->
             LET mod == IF ab.mod # {} THEN ab.mod ELSE {<<"power", ab.amount>>}
             IN  Out([W EXCEPT !.pl[ws] = add_effect(p, Effect(aid, "buff", 0, ab.duration, 0, mod), t)],
                     TRUE, "buff")
        [] ab.type = "shield" ->
             Out(set_ent(W, T, [tg EXCEPT !.shield = @ + ab.amount]), TRUE, "shield")
        [] ab.type = "heal" ->
             LET healed == clamp(ab.amount + (STATS.INT \div 3), 0, tg.max_hp - tg.hp)
             IN  Out(set_ent(W, T, [tg EXCEPT !.hp = @ + healed]), TRUE, "heal")
        [] ab.type = "lifesteal" ->
             LET dmg == ab.amount + (STATS.INT \div 4)
                 leeched == Max(0, dmg - Absorbed(tg, dmg))
                 W1 == set_ent(W, T, apply_damage(tg, dmg, t))
             IN  Out([W1 EXCEPT !.pl[ws].hp = clamp(@ + leeched, 0, W1.pl[ws].max_hp)], TRUE, "lifesteal")
        [] OTHER -> Out(W, TRUE, "-")

\* cmd_use with ability name aid and target name tq
cmd_use(ws, aid, tq) ==
  /\ can_issue(ws)
  /\ aid \in AbilityIds =>
       LET T == use_target(ws, ABILITIES[aid], tq)
       IN  T.kind # "none" => Len(get_ent(player, ROOM_INSTANCES, T).effects) < MaxEffects
  /\ LET ab == ABILITIES[aid]
         p == player[ws]
         T == use_target(ws, ab, tq)
         \* the ability the step was about (observation only)
         named == {Obs("ability", ws, 0, 0, aid)}
     IN  IF aid \notin AbilityIds
         THEN /\ ev' = Event("use", ws, named \cup {Obs("error", ws, 0, 0, "Unknown ability.")})
              /\ UNCHANGED <<player, ROOM_INSTANCES>>
         ELSE IF dict_has(p.cooldowns, aid)
         THEN /\ ev' = Event("use", ws, named \cup {Obs("error", ws, 0, 0, "on cooldown")})
              /\ UNCHANGED <<player, ROOM_INSTANCES>>
         ELSE IF T.kind = "none"
         THEN /\ ev' = Event("use", ws, named \cup {Obs("error", ws, 0, 0, "No valid target.")})
              /\ UNCHANGED <<player, ROOM_INSTANCES>>
         ELSE \E r1 \in RollValues, r2 \in RollValues :
                LET W == use_apply([pl |-> player, inst |-> ROOM_INSTANCES, log |-> {}],
                                   ws, aid, T, r1, r2, now)
                IN  /\ player' = IF W.done /\ ab.cd # 0
                                 THEN [W.pl EXCEPT ![ws].cooldowns = dict_set(@, aid, ab.cd)]
                                 ELSE W.pl
                    /\ ROOM_INSTANCES' = W.inst
                    /\ ev' = Event("use", ws, named \cup W.log)
  /\ UNCHANGED <<now, hbRunning, PLAYERS, nextMobId, autoTasks, restTasks, cmd>>

\* cmd_equip of an item of the inventory (the one slot modelled is 'weapon')
cmd_equip(ws, it) ==
  /\ can_issue(ws)
  /\ player' = [player EXCEPT ![ws] = recompute_stats([@ EXCEPT !.equipment = it])]
  /\ ev' = Event("equip", ws, {})
  /\ UNCHANGED <<now, hbRunning, PLAYERS, ROOM_INSTANCES, nextMobId, autoTasks, restTasks, cmd>>

\* cmd_unequip of the slot
cmd_unequip(ws) ==
  /\ can_issue(ws)
  /\ IF player[ws].equipment = "none"
     THEN /\ ev' = Event("unequip", ws, {Obs("error", ws, 0, 0, "Nothing equipped there.")})
          /\ UNCHANGED player
     ELSE /\ player' = [player EXCEPT ![ws] = recompute_stats([@ EXCEPT !.equipment = "none"])]
          /\ ev' = Event("unequip", ws, {})
  /\ UNCHANGED <<now, hbRunning, PLAYERS, ROOM_INSTANCES, nextMobId, autoTasks, restTasks, cmd>>

\* ------------------------------------------------------------ specifications
\* The state when the server is up: init_spawns has filled the spawn room from the
\* template list spawn, start_background_tasks has created the heartbeat, and the
\* sockets of conn have gone through create_character, which loads a saved character
\* (in the room rooms[ws], with hp0 health) and recomputes its stats.
InitWorld(spawn, conn, rooms, hp0) ==
  /\ now = T0
  /\ hbRunning = TRUE
  /\ PLAYERS = conn
  /\ player = [ws \in WS |-> recompute_stats([NewPlayer EXCEPT !.room = rooms[ws], !.hp = hp0])]
  /\ \E ais \in [1..Len(spawn) -> 0..MOB_AI_PERIOD] :
       ROOM_INSTANCES =
         [rid \in Rooms |->
            IF rid = SpawnRooms[1]
            THEN [mobs |-> [i \in 1..Len(spawn) |-> Mob(spawn[i], rid, i, ais[i])], dead_at |-> {}]
            ELSE [mobs |-> <<>>, dead_at |-> {}]]
  /\ nextMobId = Len(spawn) + 1
  /\ autoTasks = [ws \in WS |-> [k \in 1..MaxTasks |-> NoTask]]
  /\ restTasks = [ws \in WS |-> [k \in 1..MaxTasks |-> NoTask]]
  /\ cmd = [ws \in WS |-> Idle]
  /\ ev = Event("init", "none", {})

\* the clock values up to which each specification lets the heartbeat run
TimeCombat == 4
TimeMove == 4
TimeAbility == 3
TimeBuff == 3
TimeRest == 21
TimeRespawn == 50
TimeFault == 3

\* One player among two imps: attack, kill and its auto-attack task.
Init == InitWorld(<<"imp", "imp">>, <<"w1">>, [ws \in WS |-> "wilds"], BASE_HP)
Next ==
  \/ heartbeat(TimeCombat, NoFault)
  \/ \E ws \in WS, q \in MobQueries : cmd_attack(ws, q)
  \/ \E ws \in WS, q \in MobQueries \cup {<<>>} : kill_begin(ws, q)
  \/ \E ws \in WS : kill_strike(ws)
  \/ \E ws \in WS : kill_resume(ws)
  \/ \E ws \in WS, k \in 1..MaxTasks : auto_swing(ws, k)
  \/ \E ws \in WS, k \in 1..MaxTasks : auto_cancelled(ws, k)
Spec == Init /\ [][Next]_vars

\* One player among two imps: kill and its auto-attack task, go, recall and quit.
InitMove == InitWorld(<<"imp", "imp">>, <<"w1">>, [ws \in WS |-> "wilds"], BASE_HP)
NextMove ==
  \/ heartbeat(TimeMove, NoFault)
  \/ \E ws \in WS, q \in MobQueries \cup {<<>>} : kill_begin(ws, q)
  \/ \E ws \in WS : kill_strike(ws)
  \/ \E ws \in WS : kill_resume(ws)
  \/ \E ws \in WS, k \in 1..MaxTasks : auto_swing(ws, k)
  \/ \E ws \in WS, k \in 1..MaxTasks : auto_cancelled(ws, k)
  \/ \E ws \in WS, d \in Dirs : go_begin(ws, d)
  \/ \E ws \in WS : recall_begin(ws)
  \/ \E ws \in WS : move_resume(ws)
  \/ \E ws \in WS : quit_begin(ws)
  \/ \E ws \in WS : quit_resume(ws)
SpecMove == InitMove /\ [][NextMove]_vars

\* One player and an imp: the abilities aimed at an enemy, and attack.
InitAbility == InitWorld(<<"imp">>, <<"w1">>, [ws \in WS |-> "wilds"], BASE_HP)
NextAbility ==
  \/ heartbeat(TimeAbility, NoFault)
  \/ \E ws \in WS, aid \in EnemyAbilities, tq \in MobQueries \cup {<<>>} : cmd_use(ws, aid, tq)
  \/ \E ws \in WS, q \in MobQueries : cmd_attack(ws, q)
SpecAbility == InitAbility /\ [][NextAbility]_vars

\* the health a saved character comes back with
SavedHp == 50

\* One wounded player in town: the abilities aimed at oneself, equip and unequip.
InitBuff == InitWorld(<<"boar">>, <<"w1">>, [ws \in WS |-> DefaultRoom], SavedHp)
NextBuff ==
  \/ heartbeat(TimeBuff, NoFault)
  \/ \E ws \in WS, aid \in SelfAbilities : cmd_use(ws, aid, <<>>)
  \/ \E ws \in WS, it \in ItemNames : cmd_equip(ws, it)
  \/ \E ws \in WS : cmd_unequip(ws)
SpecBuff == InitBuff /\ [][NextBuff]_vars

\* One wounded player in town: rest, and the war cry.
InitRest == InitWorld(<<"boar">>, <<"w1">>, [ws \in WS |-> DefaultRoom], SavedHp)
NextRest ==
  \/ heartbeat(TimeRest, NoFault)
  \/ \E ws \in WS : cmd_use(ws, "warcry", <<>>)
  \/ \E ws \in WS : rest_begin(ws)
  \/ \E ws \in WS : rest_create(ws)
  \/ \E ws \in WS, k \in 1..MaxTasks : rest_pulse(ws, k)
  \/ \E ws \in WS, k \in 1..MaxTasks : rest_next(ws, k)
SpecRest == InitRest /\ [][NextRest]_vars

\* One player and a boar over the time a respawn takes.
InitRespawn == InitWorld(<<"boar">>, <<"w1">>, [ws \in WS |-> "wilds"], BASE_HP)
NextRespawn ==
  \/ heartbeat(TimeRespawn, NoFault)
  \/ \E ws \in WS, q \in MobQueries : cmd_attack(ws, q)
SpecRespawn == InitRespawn /\ [][NextRespawn]_vars

\* time.time() goes on when the heartbeat task has ended
time_passes(limit) ==
  /\ ~hbRunning /\ now < limit /\ ~TaskDue
  /\ now' = now + 1
  /\ ev' = Event("time", "none", {})
  /\ UNCHANGED <<hbRunning, PLAYERS, player, ROOM_INSTANCES, nextMobId, autoTasks, restTasks, cmd>>

\* Two players and an imp; the processing of a player or of a mob may raise.
InitFault == InitWorld(<<"imp">>, <<"w1", "w2">>, [ws \in WS |-> "wilds"], BASE_HP)
NextFault ==
  \/ heartbeat(TimeFault, NoFault)
  \/ \E f \in PlayerFaults : heartbeat(TimeFault, f)
  \/ \E f \in MobFaults : heartbeat(TimeFault, f)
  \/ time_passes(TimeFault)
  \/ \E ws \in WS, q \in MobQueries : cmd_attack(ws, q)
SpecFault == InitFault /\ [][NextFault]_vars

\* One player alone in town, unhurt: the effects over time, aimed at oneself by name.
TimeEffect == 13
EffectAbilities == {"bleed", "graze", "regen"}
InitEffect == InitWorld(<<"boar">>, <<"w1">>, [ws \in WS |-> DefaultRoom], BASE_HP)
NextEffect ==
  \/ heartbeat(TimeEffect, NoFault)
  \/ \E ws \in WS, aid \in EffectAbilities : cmd_use(ws, aid, <<"a">>)
SpecEffect == InitEffect /\ [][NextEffect]_vars

\* One player and a wolf, which attacks on its turns; the player may raise a shield.
TimeDefend == 9
InitDefend == InitWorld(<<"wolf">>, <<"w1">>, [ws \in WS |-> "wilds"], BASE_HP)
NextDefend ==
  \/ heartbeat(TimeDefend, NoFault)
  \/ \E ws \in WS : cmd_use(ws, "ward", <<>>)
SpecDefend == InitDefend /\ [][NextDefend]_vars

\* try_dodge_block on its own: the stats of the defender (a saved character may
\* carry any) and the two rolls are drawn, and the one call is what the step does.
DexValues == {0, 10, 13, 104, 105, 106, 200}
DefValues == {0, 2, 3, 6, 74, 75, 76, 200}
RollSamples == {1, 2, 8, 9, 25, 26, 40, 41, 100}
try_dodge_block_call ==
  /\ ev.op = "init"
  /\ \E dex \in DexValues, def \in DefValues, r1 \in RollSamples, r2 \in RollSamples :
       LET r == dodge_block([DEX |-> dex, DEFENSE |-> def], r1, r2)
       IN  ev' = Event("try_dodge_block", "none",
                       {Obs("DEX", "none", 0, dex, ""), Obs("DEF", "none", 0, def, ""),
                        Obs("r1", "none", 0, r1, ""), Obs("r2", "none", 0, r2, ""),
                        Obs("result", "none", 0, r.rolls, r.res)})
  /\ UNCHANGED <<now, hbRunning, PLAYERS, player, ROOM_INSTANCES, nextMobId, autoTasks,
                 restTasks, cmd>>
InitDodge == InitWorld(<<"wolf">>, <<"w1">>, [ws \in WS |-> "wilds"], BASE_HP)
NextDodge == try_dodge_block_call
SpecDodge == InitDodge /\ [][NextDodge]_vars

\* Two players and a shaman, which casts its bolt or strikes; the second player may
\* raise a shield and the first may smite the second by name.
TimeNegate == 4
InitNegate == InitWorld(<<"shaman">>, <<"w1", "w2">>, [ws \in WS |-> "wilds"], BASE_HP)
NextNegate ==
  \/ heartbeat(TimeNegate, NoFault)
  \/ cmd_use("w1", "smite", <<"b">>)
  \/ cmd_use("w2", "ward", <<>>)
SpecNegate == InitNegate /\ [][NextNegate]_vars

\* One wounded player and an imp over the time a death and a revival take; the
\* player may poison a player by name.
TimeDeath == 21
InitDeath == InitWorld(<<"imp">>, <<"w1">>, [ws \in WS |-> "wilds"], SavedHp)
NextDeath ==
  \/ heartbeat(TimeDeath, NoFault)
  \/ \E ws \in WS : cmd_use(ws, "venom", <<"a">>)
SpecDeath == InitDeath /\ [][NextDeath]_vars

\* One player and a boar, which leaves alone who leaves it alone: the player may
\* attack it, make it bleed, and walk out of the room and back.
TimeMonster == 13
InitMonster == InitWorld(<<"boar">>, <<"w1">>, [ws \in WS |-> "wilds"], BASE_HP)
NextMonster ==
  \/ heartbeat(TimeMonster, NoFault)
  \/ \E ws \in WS : cmd_attack(ws, <<"b">>)
  \/ \E ws \in WS : cmd_use(ws, "bleed", <<"b">>)
  \/ \E ws \in WS, d \in Dirs : go_begin(ws, d)
SpecMonster == InitMonster /\ [][NextMonster]_vars

\* One player and a shaman, which casts its bolt and strikes: the player may attack
\* it and make it bleed.
TimeCaster == 7
InitCaster == InitWorld(<<"shaman">>, <<"w1">>, [ws \in WS |-> "wilds"], BASE_HP)
NextCaster ==
  \/ heartbeat(TimeCaster, NoFault)
  \/ \E ws \in WS : cmd_attack(ws, <<"s">>)
  \/ \E ws \in WS : cmd_use(ws, "bleed", <<"s">>)
SpecCaster == InitCaster /\ [][NextCaster]_vars

\* Two wounded players among two imps, whose blows kill at the second hit: the
\* players may walk out of the room and back.
TimeTargets == 5
InitTargets == InitWorld(<<"imp", "imp">>, <<"w1", "w2">>, [ws \in WS |-> "wilds"], SavedHp)
NextTargets ==
  \/ heartbeat(TimeTargets, NoFault)
  \/ \E ws \in WS, d \in Dirs : go_begin(ws, d)
SpecTargets == InitTargets /\ [][NextTargets]_vars

\* One player and a witch, which has a skill that harms and one that mends: the
\* player may attack it.
TimeSkills == 8
InitSkills == InitWorld(<<"witch">>, <<"w1">>, [ws \in WS |-> "wilds"], BASE_HP)
NextSkills ==
  \/ heartbeat(TimeSkills, NoFault)
  \/ \E ws \in WS : cmd_attack(ws, <<"w">>)
SpecSkills == InitSkills /\ [][NextSkills]_vars

\* One player and a boar over a time too short for a rest pulse: the commands that
\* can be refused, with names that match and names that do not.
TimeErrors == 3
ErrorQueries == {<<"b">>, <<"x">>}
AbilityNames == {"smite", "zap"}
InitErrors == InitWorld(<<"boar">>, <<"w1">>, [ws \in WS |-> "wilds"], BASE_HP)
NextErrors ==
  \/ heartbeat(TimeErrors, NoFault)
  \/ \E ws \in WS, q \in ErrorQueries : cmd_attack(ws, q)
  \/ \E ws \in WS : kill_begin(ws, <<"x">>)
  \/ \E ws \in WS, aid \in AbilityNames, tq \in ErrorQueries : cmd_use(ws, aid, tq)
  \/ \E ws \in WS, d \in Dirs : go_begin(ws, d)
  \/ \E ws \in WS : recall_begin(ws)
  \/ \E ws \in WS : rest_begin(ws)
  \/ \E ws \in WS : rest_create(ws)
SpecErrors == InitErrors /\ [][NextErrors]_vars

\* Two lightly wounded players in town: each may raise a shield and drain the other.
TimeDrain == 3
DrainHp == 90
InitDrain == InitWorld(<<"boar">>, <<"w1", "w2">>, [ws \in WS |-> DefaultRoom], DrainHp)
NextDrain ==
  \/ heartbeat(TimeDrain, NoFault)
  \/ \E ws \in WS : cmd_use(ws, "ward", <<>>)
  \/ cmd_use("w1", "drain", <<"b">>)
  \/ cmd_use("w2", "drain", <<"a">>)
SpecDrain == InitDrain /\ [][NextDrain]_vars

\* One wounded player in town: a hot, a buff and a dot that can each be used again
\* while the last use is still running.
TimeStack == 5
InitStack == InitWorld(<<"boar">>, <<"w1">>, [ws \in WS |-> DefaultRoom], SavedHp)
NextStack ==
  \/ heartbeat(TimeStack, NoFault)
  \/ \E ws \in WS, aid \in {"mend", "warcry"} : cmd_use(ws, aid, <<>>)
  \/ \E ws \in WS : cmd_use(ws, "venom", <<"a">>)
SpecStack == InitStack /\ [][NextStack]_vars

\* One player and a boar: kill and its auto-attack task, the start of a rest task,
\* quit and a dropped connection.
TimeSession == 4
InitSession == InitWorld(<<"boar">>, <<"w1">>, [ws \in WS |-> "wilds"], BASE_HP)
NextSession ==
  \/ heartbeat(TimeSession, NoFault)
  \/ \E ws \in WS : kill_begin(ws, <<"b">>)
  \/ \E ws \in WS : kill_strike(ws)
  \/ \E ws \in WS : kill_resume(ws)
  \/ \E ws \in WS, k \in 1..MaxTasks : auto_swing(ws, k)
  \/ \E ws \in WS, k \in 1..MaxTasks : auto_cancelled(ws, k)
  \/ \E ws \in WS : rest_begin(ws)
  \/ \E ws \in WS : rest_create(ws)
  \/ \E ws \in WS : quit_begin(ws)
  \/ \E ws \in WS : quit_resume(ws)
  \/ \E ws \in WS : drop(ws)
SpecSession == InitSession /\ [][NextSession]_vars

\* One wounded player in town over the time a whole rest takes: rest and its task,
\* and the war cry, which flags combat, used in the first seconds only.
TimeFullRest == 62
DisturbUntil == 2
\* cmd_use of the war cry while the clock is at most DisturbUntil
warcry_early(ws) == now <= DisturbUntil /\ cmd_use(ws, "warcry", <<>>)
InitFullRest == InitWorld(<<"boar">>, <<"w1">>, [ws \in WS |-> DefaultRoom], SavedHp)
NextFullRest ==
  \/ heartbeat(TimeFullRest, NoFault)
  \/ \E ws \in WS : warcry_early(ws)
  \/ \E ws \in WS : rest_begin(ws)
  \/ \E ws \in WS : rest_create(ws)
  \/ \E ws \in WS, k \in 1..MaxTasks : rest_pulse(ws, k)
  \/ \E ws \in WS, k \in 1..MaxTasks : rest_next(ws, k)
SpecFullRest == InitFullRest /\ [][NextFullRest]_vars

\* -------------------------------------------------------------------- claims
\* the entities of the world: the connected players and the mobs of the rooms
Entities ==
  {player[PLAYERS[i]] : i \in 1..Len(PLAYERS)}
  \cup UNION {{ROOM_INSTANCES[rid].mobs[i] : i \in 1..Len(ROOM_INSTANCES[rid].mobs)} : rid \in Rooms}
AllMobs == UNION {{ROOM_INSTANCES[rid].mobs[i] : i \in 1..Len(ROOM_INSTANCES[rid].mobs)} : rid \in Rooms}

\* C1: after any sequence of operations every player and every monster has
\* 0 <= health <= maxHealth.
C1_HealthWithinBounds == \A e \in Entities : 0 <= e.hp /\ e.hp <= e.max_hp

\* C5: each monster death produces exactly one death event: mob_death has been
\* invoked once for every monster instance whose health is 0, and never twice.
C5_OneDeathEvent == \A m \in AllMobs : m.deaths <= 1 /\ (m.hp = 0 => m.deaths = 1)

\* C7: in every reachable state health = 0 implies alive = false.
C7_ZeroHealthNotAlive == \A e \in Entities : e.hp = 0 => ~e.alive

RunningTasks(tasks) == {k \in 1..MaxTasks : running(tasks[k])}

\* C2: a player never has more than one auto-attack task running, and every swing
\* is made by the task the player holds now: a task that 'kill' replaced (cancelled
\* and awaited before the new one was created) makes no swing afterwards.
C2_OneAutoTask ==
  \A ws \in WS :
    /\ Cardinality(RunningTasks(autoTasks[ws])) <= 1
    /\ \A o \in ev.log : (o.k = "swing" /\ o.ws = ws) => o.n = player[ws].auto_task

\* 'kill' was issued while a task was running: the old task was cancelled and has
\* ended, and the new task has just been created
C2_Restarted ==
  \E ws \in WS : /\ ev.op = "kill" /\ Obs("engage", ws, 0, 0, "") \in ev.log
                 /\ auto_running(player[ws], autoTasks[ws])
                 /\ autoTasks[ws][player[ws].auto_task].born = now

\* C3: once the monster a player engaged with 'kill' has been killed by a separate
\* strike, the auto-attack task makes no further swing against any monster.
C3_NoSwingAfterTargetDeath == \A o \in ev.log : o.k = "swing" => o.s # "stale"

\* C4: at the moment 'go' or 'recall' changes a player's room, the player is not
\* in combat.
C4_NoMoveInCombat == \A o \in ev.log : o.k = "moved" => ~in_combat(player[o.ws], now)

\* C6: when the processing of one player or one mob raises during a tick, the
\* heartbeat keeps running and every other player and mob is processed in that tick.
C6_FaultIsolated ==
  /\ hbRunning
  /\ ev.op = "heartbeat" =>
       /\ \A i \in 1..Len(PLAYERS) :
            PLAYERS[i] # ev.ws => Obs("ptick", PLAYERS[i], 0, 0, "") \in ev.log
       /\ \A m \in AllMobs :
            Obs("caught", "none", m.id, 0, "") \notin ev.log
              => Obs("mtick", "none", m.id, 0, "") \in ev.log

\* C8: once the player has been flagged in combat after the rest began, no later
\* pulse of that rest raises the player's health.
C8_NoPulseAfterCombat ==
  \A ws \in WS, k \in 1..MaxTasks :
    (ev.op = "do_rest" /\ Obs("pulse", ws, 0, k, "healed") \in ev.log)
      => player[ws].last_combat_ts <= restTasks[ws][k].born

\* C9: a player has at most one rest task at any instant, and 'rest' issued while a
\* rest task is running is rejected: no task is created, nothing is queued and the
\* running task is left as it is.
C9_SecondRestRejected ==
  /\ [](\A ws \in WS : Cardinality(RunningTasks(restTasks[ws])) <= 1)
  /\ [][\A ws \in WS :
          (RunningTasks(restTasks[ws]) # {} /\ rest_begin(ws))
            => /\ restTasks' = restTasks
               /\ cmd'[ws] = Idle
               /\ \E o \in ev'.log : o.k = "error"]_vars

\* a 'rest' issued during a rest was answered "You are already resting."
C9_Rejected ==
  \E ws \in WS : /\ ev = Event("rest", ws, {Obs("error", ws, 0, 0, "You are already resting.")})
                 /\ rest_running(player[ws], restTasks[ws])

\* C10: a monster whose death the heartbeat registers at tick T (dead_at = T) stays
\* in the list, not alive, through tick T + respawn - 1, and the tick T + respawn
\* replaces it by a new monster of the same template with full health and no skill
\* cooldowns: the replacement comes exactly respawn (45) ticks after T.
C10_RespawnAfterDelay ==
  /\ \A rid \in Rooms :
       \A i \in 1..Len(ROOM_INSTANCES[rid].mobs) :
         LET m == ROOM_INSTANCES[rid].mobs[i]
             dead_at == ROOM_INSTANCES[rid].dead_at
         IN  dict_has(dead_at, m.id) =>
               ~m.alive /\ now - dict_get(dead_at, m.id, 0) < m.respawn
  /\ \A o \in ev.log :
       o.k = "respawn" =>
         /\ o.n = MONSTERS[o.s].respawn
         /\ \A m \in AllMobs : m.id # o.id
         /\ \E m \in AllMobs :
              /\ m.id = nextMobId - 1 /\ m.template_id = o.s /\ m.alive
              /\ m.hp = MONSTERS[o.s].hp /\ m.max_hp = m.hp
              /\ m.skill_cd = {} /\ m.effects = <<>>

\* a dead monster has just been replaced
C10_Respawned == \E o \in ev.log : o.k = "respawn" /\ o.n = 45

\* the mob objects of a room's list, as identities, and the object with identity id
ids_in(inst, rid) == {inst[rid].mobs[i].id : i \in 1..Len(inst[rid].mobs)}
mob_by_id(inst, rid, id) == inst[rid].mobs[index_of(inst[rid].mobs, id)]

\* C11: a death record belongs to a dead monster that is still in the room's list;
\* every dead monster of the list has one after a tick; a record is written with the
\* time of the tick that first sees the monster dead and is not changed afterwards;
\* a monster leaves the list only dead, with its record cleared, and with one new
\* live monster of its template at full health taking its place, so that the length
\* of every room's list never changes.
C11_DeathRecordedOnceReplacedOnce ==
  /\ [](\A rid \in Rooms :
          /\ \A pr \in ROOM_INSTANCES[rid].dead_at :
               /\ pr[1] \in ids_in(ROOM_INSTANCES, rid)
               /\ ~mob_by_id(ROOM_INSTANCES, rid, pr[1]).alive
               /\ pr[2] <= now
          /\ Cardinality(ids_in(ROOM_INSTANCES, rid)) = Len(ROOM_INSTANCES[rid].mobs)
          /\ ev.op = "heartbeat" =>
               \A id \in ids_in(ROOM_INSTANCES, rid) :
                 ~mob_by_id(ROOM_INSTANCES, rid, id).alive
                   => dict_has(ROOM_INSTANCES[rid].dead_at, id))
  /\ [][\A rid \in Rooms :
          LET old == ROOM_INSTANCES[rid]
              new == ROOM_INSTANCES'[rid]
              gone == ids_in(ROOM_INSTANCES, rid) \ ids_in(ROOM_INSTANCES', rid)
              born == ids_in(ROOM_INSTANCES', rid) \ ids_in(ROOM_INSTANCES, rid)
          IN  /\ Len(new.mobs) = Len(old.mobs)
              /\ \A pr \in old.dead_at : dict_has(new.dead_at, pr[1]) => pr \in new.dead_at
              /\ \A pr \in new.dead_at : ~dict_has(old.dead_at, pr[1]) => pr[2] = now'
              /\ \A id \in gone : /\ ~mob_by_id(ROOM_INSTANCES, rid, id).alive
                                  /\ dict_has(old.dead_at, id)
                                  /\ ~dict_has(new.dead_at, id)
              /\ Cardinality(born) = Cardinality(gone)
              /\ \A tid \in DOMAIN MONSTERS :
                   Cardinality({id \in born : mob_by_id(ROOM_INSTANCES', rid, id).template_id = tid})
                     = Cardinality({id \in gone : mob_by_id(ROOM_INSTANCES, rid, id).template_id = tid})
              /\ \A id \in born : LET m == mob_by_id(ROOM_INSTANCES', rid, id)
                                   IN  m.alive /\ m.hp = m.max_hp /\ m.hp = MONSTERS[m.template_id].hp
                                       /\ ~dict_has(new.dead_at, id)]_vars

\* a replacement has just been made: the room's list holds a fresh monster, the old
\* object and its death record are gone
C11_Replaced ==
  \E o \in ev.log :
    /\ o.k = "respawn"
    /\ \E rid \in Rooms : /\ nextMobId - 1 \in ids_in(ROOM_INSTANCES, rid)
                          /\ o.id \notin ids_in(ROOM_INSTANCES, rid)
                          /\ ROOM_INSTANCES[rid].dead_at = {}

\* the sum of the deltas the buffs of an effect list give to attribute key
RECURSIVE buff_sum(_, _)
buff_sum(effects, key) ==
  IF effects = <<>> THEN 0
  ELSE (IF Head(effects).kind = "buff" THEN dict_get(Head(effects).mod, key, 0) ELSE 0)
       + buff_sum(Tail(effects), key)

\* C12: a buff with modifier {power: +d} raises power by d from its attach to its
\* expiry and no longer: at every moment a player's power is the power of the
\* character and its gear plus the deltas of the buffs the player carries (each buff
\* adds its own delta at attach and takes its own delta back at expiry), and a buff
\* is carried for no more ticks than its duration.
C12_PowerIsBasePlusBuffs ==
  \A i \in 1..Len(PLAYERS) :
    LET p == player[PLAYERS[i]]
    IN  /\ p.power = recompute_stats(p).power + buff_sum(p.effects, "power")
        /\ \A j \in 1..Len(p.effects) :
             p.effects[j].kind = "buff" =>
               /\ p.effects[j].remaining >= 1
               /\ p.effects[j].remaining <= ABILITIES[p.effects[j].name].duration

\* the number of the coming tick counted from the attach of effect eff, from the
\* duration the effect was created with
tick_no(eff) == ABILITIES[eff.name].duration - eff.remaining + 1
\* the rule of the claim: a dot or hot fires on the ticks k, 2k, ... after its attach
fires_on(eff) == eff.kind \in {"dot", "hot"} /\ tick_no(eff) % ABILITIES[eff.name].tick = 0
\* the health after the effects of list E that fire by that rule have acted, in order
RECURSIVE hp_after(_, _, _)
hp_after(E, hp, max_hp) ==
  IF E = <<>> THEN hp
  ELSE LET eff == Head(E)
           hp1 == IF ~fires_on(eff) THEN hp
                  ELSE IF eff.kind = "dot" THEN Max(0, Min(max_hp, hp - eff.amount))
                  ELSE hp + Max(0, Min(max_hp - hp, eff.amount))
       IN  hp_after(Tail(E), hp1, max_hp)
\* an effect list as <<name, ticks left>> pairs, d ticks later
left_after(E, d) == [j \in 1..Len(E) |-> <<E[j].name, E[j].remaining - d>>]

\* C13: a dot or hot with duration D and interval k is carried for the ticks 1..D
\* after its attach, fires on those of them that are multiples of k (floor(D/k)
\* times) and is removed by tick D; a dot of 5 with D = 10, k = 2 used once on a
\* player with health 100 of 100 has taken 5 per two ticks, 25 in all, and is gone
\* after its tenth tick: health 75.
C13_EffectSchedule ==
  /\ [](\A i \in 1..Len(PLAYERS) :
          LET p == player[PLAYERS[i]]
              cd == dict_get(p.cooldowns, "bleed", 0)
              e == ABILITIES["bleed"].cd - cd
          IN  /\ \A j \in 1..Len(p.effects) :
                   /\ p.effects[j].remaining >= 1
                   /\ p.effects[j].remaining <= ABILITIES[p.effects[j].name].duration
              /\ (cd > 0 /\ ~dict_has(p.cooldowns, "regen")) =>
                   /\ p.hp = 100 - 5 * (Min(e, 10) \div 2)
                   /\ (\E j \in 1..Len(p.effects) : p.effects[j].name = "bleed") <=> e < 10)
  /\ [][\A i \in 1..Len(PLAYERS) :
          LET p == player[PLAYERS[i]]
              q == player'[PLAYERS[i]]
          IN  now' = now + 1 =>
                /\ q.hp = hp_after(p.effects, p.hp, p.max_hp)
                /\ left_after(q.effects, 0)
                     = SelectSeq(left_after(p.effects, 1), LAMBDA x : x[2] >= 1)]_vars

\* the dot of the example has just gone, ten ticks after its use: health 75
C13_DotDone ==
  /\ ev.op = "heartbeat"
  /\ player["w1"].hp = 75 /\ player["w1"].effects = <<>>
  /\ dict_get(player["w1"].cooldowns, "bleed", 0) = ABILITIES["bleed"].cd - 10
  /\ ~dict_has(player["w1"].cooldowns, "regen")

\* C14: when a monster's attack lands on a player with shield s and health h for
\* the pending damage d (the monster's power less the player's defense, not below
\* 0), the shield takes absorbed = min(s, d) and becomes s - absorbed, and health
\* drops by min(h, d - absorbed); damage 30 on shield 20 leaves shield 0 and takes
\* 10 health.
C14_ShieldAbsorbsFirst ==
  [][\A o \in ev'.log :
       (ev'.op = "heartbeat" /\ o.k = "mobact" /\ o.s = "hit") =>
         LET p == player[o.ws]
             q == player'[o.ws]
             m == CHOOSE x \in AllMobs : x.id = o.id
             d == Max(0, m.power - p.defense)
             absorbed == Min(p.shield, d)
         IN  /\ q.shield = p.shield - absorbed
             /\ q.hp = p.hp - Min(p.hp, d - absorbed)
             /\ (d = 30 /\ p.shield = 20 /\ p.hp >= 10) =>
                  (q.shield = 0 /\ p.hp - q.hp = 10)]_vars

\* a hit of 30 has just landed on a shield of 20 over full health
C14_ShieldBroken ==
  /\ ev.op = "heartbeat"
  /\ \E o \in ev.log : o.k = "mobact" /\ o.s = "hit" /\ o.ws = "w1"
  /\ player["w1"].shield = 0 /\ player["w1"].hp = 90

\* the number logged under key k by the last step
logged(k) == (CHOOSE o \in ev.log : o.k = k).n

\* C15: for a player defender the dodge roll comes first and succeeds with chance
\* min(40, 5 + DEX/3) percent; when it succeeds no second roll is made and the attack
\* is dodged; only when it fails is the block roll made, which succeeds with chance
\* min(25, DEF/3) percent.
C15_DodgeThenBlock ==
  ev.op = "try_dodge_block" =>
    LET stats == [DEX |-> logged("DEX"), DEFENSE |-> logged("DEF")]
        r1 == logged("r1")
        r2 == logged("r2")
        res == (CHOOSE o \in ev.log : o.k = "result").s
        rolls == logged("result")
        dodge_pct == IF 5 + (stats.DEX \div 3) < 40 THEN 5 + (stats.DEX \div 3) ELSE 40
        block_pct == IF stats.DEFENSE \div 3 < 25 THEN stats.DEFENSE \div 3 ELSE 25
    IN  /\ res = "dodge" <=> r1 <= dodge_pct
        /\ res = "dodge" => rolls = 1
        /\ res # "dodge" => rolls = 2
        /\ res = "block" <=> (r1 > dodge_pct /\ r2 <= block_pct)
        /\ Cardinality({r \in 1..100 : dodge_block(stats, r, r2).res = "dodge"}) = dodge_pct
        /\ Cardinality({r \in 1..100 : dodge_block(stats, 100, r).res = "block"}) = block_pct

\* both chances at their caps: the dodge roll failed and the block roll succeeded
C15_BlockAfterFailedDodge ==
  /\ ev.op = "try_dodge_block"
  /\ logged("DEX") = 200 /\ logged("DEF") = 200
  /\ logged("r1") = 41 /\ logged("r2") = 25
  /\ Obs("result", "none", 0, 2, "block") \in ev.log

\* the attacks the last step's log shows against player ws, and those of them that
\* the player dodged or blocked
mob_attacks_on(log, ws) == {o \in log : o.k = "mobact" /\ o.ws = ws}
negated(log, ws) == {o \in mob_attacks_on(log, ws) : o.s \in {"dodge", "block"}}

\* C16: an attack that a player defender dodges or blocks changes neither the
\* defender's health nor shield nor alive flag: a player's damage ability that is
\* dodged or blocked leaves them as they were, and so does a tick in which every
\* attack of a monster on the player (damage skill or basic attack) is dodged or
\* blocked.
C16_DodgeBlockNegates ==
  [][/\ (ev'.op = "use" /\ \E o \in ev'.log : o.k = "use" /\ o.s \in {"dodge", "block"}) =>
         \A ws \in WS : /\ player'[ws].hp = player[ws].hp
                        /\ player'[ws].shield = player[ws].shield
                        /\ player'[ws].alive = player[ws].alive
     /\ ev'.op = "heartbeat" =>
         \A ws \in WS :
           (negated(ev'.log, ws) # {} /\ negated(ev'.log, ws) = mob_attacks_on(ev'.log, ws)) =>
             LET p == player_tick(player[ws], now')
             IN  /\ player'[ws].hp = p.hp
                 /\ player'[ws].shield = p.shield
                 /\ player'[ws].alive = p.alive]_vars

\* a shielded player has just dodged or blocked the monster's damage skill
C16_SkillNegated ==
  /\ ev.op = "heartbeat"
  /\ \E ws \in WS : /\ negated(ev.log, ws) # {}
                     /\ player[ws].shield > 0
  /\ \E m \in AllMobs : dict_get(m.skill_cd, "bolt", 0) = 4

\* C17: when 'go' or 'recall' has changed a player's room, and when 'quit' has
\* closed the session, the player has no auto-attack task that is not done (a
\* running one was cancelled and has ended before), and a player whose session is
\* closed never has one: no swing of that player's can follow.
C17_NoAutoTaskAfterMove ==
  /\ \A o \in ev.log :
       o.k \in {"moved", "closed"} =>
         RunningTasks(autoTasks[o.ws]) = {} /\ ~auto_running(player[o.ws], autoTasks[o.ws])
  /\ \A ws \in WS : ~connected(ws) => RunningTasks(autoTasks[ws]) = {}

\* a move has just been made by a player whose running task was cancelled for it
C17_MovedAfterCancel ==
  \E o \in ev.log :
    /\ o.k = "moved" /\ player[o.ws].auto_task = 0
    /\ \E k \in 1..MaxTasks : autoTasks[o.ws][k].st = "done"

\* C18: a cooldown entry of a player is between 1 and the ability's configured
\* cooldown; a 'use' of an ability that has an entry is rejected and changes no
\* player, monster or cooldown; a 'use' of an ability with a configured cooldown c
\* that has no entry and finds its target is not rejected for cooldown and, the
\* ability having acted, leaves the entry c; every tick takes one off every entry of
\* every connected player and removes those that reach 0, so that the ability is
\* rejected for c ticks and accepted after them.
C18_CooldownDiscipline ==
  /\ [](\A ws \in WS : \A pr \in player[ws].cooldowns :
          pr[2] >= 1 /\ pr[2] <= ABILITIES[pr[1]].cd)
  /\ [][/\ ev'.op = "use" =>
             LET ws == ev'.ws
                 aid == (CHOOSE o \in ev'.log : o.k = "ability").s
             IN  IF dict_has(player[ws].cooldowns, aid)
                 THEN /\ player' = player /\ ROOM_INSTANCES' = ROOM_INSTANCES
                      /\ \E o \in ev'.log : o.k = "error" /\ o.s = "on cooldown"
                 ELSE /\ \A o \in ev'.log : o.k = "error" => o.s # "on cooldown"
                      /\ (ABILITIES[aid].cd > 0
                            /\ \E o \in ev'.log : o.k = "use" /\ o.s = ABILITIES[aid].type)
                           => /\ <<aid, ABILITIES[aid].cd>> \in player'[ws].cooldowns
                              /\ dict_del(player'[ws].cooldowns, aid) = player[ws].cooldowns
        /\ now' = now + 1 =>
             \A i \in 1..Len(PLAYERS) :
               player'[PLAYERS[i]].cooldowns
                 = {<<pr[1], pr[2] - 1>> : pr \in {x \in player[PLAYERS[i]].cooldowns : x[2] > 1}}]_vars

\* a use has just been rejected for a cooldown that a tick has already shortened
C18_Rejected ==
  /\ ev.op = "use"
  /\ \E o \in ev.log : o.k = "error" /\ o.s = "on cooldown"
  /\ \E pr \in player[ev.ws].cooldowns : pr[2] >= 1 /\ pr[2] < ABILITIES[pr[1]].cd

\* C19: the death timestamp is null whenever the player is alive; a connected player
\* whose health has reached 0 is, after the next tick, either dead with the time of
\* death on record or revived; the record is written once, with the time of the
\* tick that writes it; the player is revived by the tick at which
\* DEATH_RESPAWN_SECONDS have passed since the record and by no earlier one, and
\* is then alive at half max health in the default room with the record cleared.
C19_DeathRecordedThenRevived ==
  /\ [](\A ws \in WS : player[ws].alive => player[ws].dead_since = 0)
  /\ [][now' = now + 1 =>
         \A i \in 1..Len(PLAYERS) :
           LET p == player[PLAYERS[i]]
               q == player'[PLAYERS[i]]
               revived == /\ q.alive /\ q.dead_since = 0 /\ q.room = DefaultRoom
                          /\ q.hp = Max(1, q.max_hp \div 2)
           IN  /\ p.hp = 0 => ((~q.alive /\ q.dead_since # 0) \/ revived)
               /\ (p.dead_since = 0 /\ q.dead_since # 0) => q.dead_since = now'
               /\ (p.dead_since # 0 /\ ~q.alive) => q.dead_since = p.dead_since
               /\ (~p.alive /\ q.alive) =>
                    /\ p.dead_since # 0 /\ now' - p.dead_since >= DEATH_RESPAWN_SECONDS
                    /\ revived
               /\ (p.dead_since # 0 /\ now' - p.dead_since >= DEATH_RESPAWN_SECONDS) => q.alive]_vars

\* the damaging actions the last step's log shows: a player's attack or kill strike,
\* an auto-attack swing, a damage or lifesteal ability that landed, a monster's
\* damage skill or basic attack that landed
damaging(o) ==
  \/ o.k \in {"strike", "swing"}
  \/ o.k = "use" /\ o.s \in {"damage", "lifesteal"}
  \/ o.k = "mobact" /\ o.s \in {"hit", "damage"}

\* C20: after every damaging action the player party to it (attacker or defender)
\* and the monster party to it have lastCombatTimestamp = now and are in combat.
C20_BothFlagged ==
  \A o \in ev.log :
    damaging(o) =>
      /\ player[o.ws].last_combat_ts = now /\ in_combat(player[o.ws], now)
      /\ \A m \in AllMobs : m.id = o.id => (m.last_combat_ts = now /\ in_combat(m, now))

\* the actions the log shows for the monster object id
acts_in(log, id) == {o \in log : o.k = "mobact" /\ o.id = id}

\* a dot effect of m fires in the coming tick (and puts m in combat)
dot_fires(m) ==
  \E i \in 1..Len(m.effects) : m.effects[i].kind = "dot" /\ m.effects[i].next_tick_in <= 1

\* C21: in a tick a monster acts only if it is alive, its countdown reaches zero in
\* that tick and it is aggressive or in combat at its turn; a live monster for which
\* this is not so has its countdown lowered by one, not below zero, and does not act;
\* a non-aggressive monster that was never flagged and carries no effect never acts.
C21_ActsOnlyWhenDue ==
  [][(now' = now + 1 /\ ev'.op = "heartbeat") =>
       \A rid \in Rooms :
         \A id \in ids_in(ROOM_INSTANCES, rid) \cap ids_in(ROOM_INSTANCES', rid) :
           LET m == mob_by_id(ROOM_INSTANCES, rid, id)
               m1 == mob_by_id(ROOM_INSTANCES', rid, id)
               is_due == /\ m.alive
                         /\ Max(0, m.ai_cd - 1) = 0
                         /\ (m.aggro \/ in_combat(m, now') \/ dot_fires(m))
           IN  /\ acts_in(ev'.log, id) # {} => is_due
               /\ (m.alive /\ ~is_due) =>
                     /\ m1.ai_cd = Max(0, m.ai_cd - 1)
                     /\ m1.ai_cd >= 0
                     /\ m1.last_combat_ts \in {m.last_combat_ts} \cup (IF dot_fires(m) THEN {now'} ELSE {})
               /\ (~m.aggro /\ m.last_combat_ts = 0 /\ m.effects = <<>>) =>
                     acts_in(ev'.log, id) = {}]_vars

\* a non-aggressive monster that a player has hit takes its turn and strikes back
C21_ProvokedActs ==
  /\ ev.op = "heartbeat"
  /\ \E m \in AllMobs : ~m.aggro /\ acts_in(ev.log, m.id) # {} /\ m.ai_cd \in AiResets

C23_RevertBeforeReport ==
  \A o1 \in ev.log : \A o2 \in ev.log :
    (o1.k = "report" /\ o2.k = "expire" /\ o1.ws = o2.ws) => o2.n < o1.n

\* C24: a monster acts at most once in a tick; after it acted its countdown is in
\* MOB_AI_PERIOD - MOB_AI_JITTER .. MOB_AI_PERIOD + MOB_AI_JITTER; a tick that finds
\* the countdown at two or more lowers it by one without the monster acting, and no
\* other step touches the countdown: so two actions of a monster are at least
\* MOB_AI_PERIOD - MOB_AI_JITTER ticks apart.
C24_CountdownResetAfterAct ==
  [][\A rid \in Rooms :
       \A id \in ids_in(ROOM_INSTANCES, rid) \cap ids_in(ROOM_INSTANCES', rid) :
         LET m == mob_by_id(ROOM_INSTANCES, rid, id)
             m1 == mob_by_id(ROOM_INSTANCES', rid, id)
             acts == acts_in(ev'.log, id)
         IN  IF now' = now + 1 /\ ev'.op = "heartbeat"
             THEN /\ Cardinality(acts) <= 1
                  /\ acts # {} =>
                        /\ m1.ai_cd >= MOB_AI_PERIOD - MOB_AI_JITTER
                        /\ m1.ai_cd <= MOB_AI_PERIOD + MOB_AI_JITTER
                  /\ (m.alive /\ m.ai_cd >= MOB_AI_PERIOD - MOB_AI_JITTER) =>
                        (acts = {} /\ m1.ai_cd = m.ai_cd - 1)
             ELSE acts = {} /\ m1.ai_cd = m.ai_cd]_vars

\* a monster strikes while the skill it cast MOB_AI_PERIOD - MOB_AI_JITTER ticks ago
\* is still cooling down: its second action, as early as the countdown allows
C24_ActsAgainAtOnce ==
  /\ ev.op = "heartbeat"
  /\ \E m \in AllMobs : \E o \in acts_in(ev.log, m.id) :
       /\ o.n = 0
       /\ \E pr \in m.skill_cd :
            pr[2] = MONSTERS[m.template_id].skills[1].cd - (MOB_AI_PERIOD - MOB_AI_JITTER)

\* C25: whenever a monster's skill or basic attack is applied, the player it is
\* applied to is alive and in the monster's room at that instant; after the tick
\* that player is still in that room.
C25_TargetAliveAndPresent ==
  \A o \in ev.log :
    o.k = "mobtgt" =>
      /\ o.n = 1
      /\ \A m \in AllMobs : m.id = o.id => (o.s = m.room /\ player[o.ws].room = m.room)
      /\ connected(o.ws)
      /\ acts_in(ev.log, o.id) # {}

\* a monster strikes a live player of its room while the other player lies dead
\* in the same room since an earlier tick
C25_DeadBystander ==
  /\ ev.op = "heartbeat"
  /\ \E o \in ev.log : \E ws \in WS :
       /\ o.k = "mobtgt" /\ ws # o.ws /\ connected(ws)
       /\ ~player[ws].alive /\ player[ws].room = o.s
       /\ player[ws].dead_since # 0 /\ player[ws].dead_since < now

\* C26: a monster uses a skill only if the skill's cooldown, lowered by the tick,
\* is not above zero, and makes a basic attack only if no skill is in that case; a
\* skill that was used has its configured cooldown afterwards; a skill that was
\* not used in a tick has its cooldown lowered by one (not below zero), and no other
\* step changes a cooldown: so a skill used at one tick is ready again exactly its
\* cooldown later and not before.
C26_SkillCooldowns ==
  [][\A rid \in Rooms :
       \A id \in ids_in(ROOM_INSTANCES, rid) \cap ids_in(ROOM_INSTANCES', rid) :
         LET m == mob_by_id(ROOM_INSTANCES, rid, id)
             m1 == mob_by_id(ROOM_INSTANCES', rid, id)
             sk == MONSTERS[m.template_id].skills
             left(d, k) == dict_get(d, sk[k].name, 0)
             used == {o.n : o \in acts_in(ev'.log, id)}
         IN  IF now' = now + 1 /\ ev'.op = "heartbeat"
             THEN /\ \A k \in used \ {0} :
                       /\ k \in 1..Len(sk)
                       /\ left(m.skill_cd, k) - 1 <= 0
                       /\ left(m1.skill_cd, k) = sk[k].cd
                  /\ 0 \in used => \A k \in 1..Len(sk) : left(m.skill_cd, k) - 1 > 0
                  /\ \A k \in 1..Len(sk) :
                       (m.alive /\ k \notin used) =>
                         left(m1.skill_cd, k) = Max(0, left(m.skill_cd, k) - 1)
             ELSE m1.skill_cd = m.skill_cd]_vars

\* a monster makes a basic attack while every one of its skills is cooling down
C26_BasicWhileCooling ==
  /\ ev.op = "heartbeat"
  /\ \E m \in AllMobs : \E o \in acts_in(ev.log, m.id) :
       /\ o.n = 0
       /\ MONSTERS[m.template_id].skills # <<>>
       /\ Cardinality(m.skill_cd) = Len(MONSTERS[m.template_id].skills)

\* C27: power, defense and shield of every player and every monster are never
\* negative.
C27_StatsNonNegative ==
  \A e \in Entities \cup {player[ws] : ws \in WS} :
    e.power >= 0 /\ e.defense >= 0 /\ e.shield >= 0

\* the refusals of the last step
errors_in(log) == {o.s : o \in {x \in log : x.k = "error"}}

\* C28: a command that ends in an error message changes nothing: no player, no
\* monster, no room instance, no task, no connection and no command in flight.
C28_ErrorsChangeNothing ==
  [][errors_in(ev'.log) # {} =>
       /\ ev'.op \in {"attack", "kill", "use", "go", "recall", "rest"}
       /\ UNCHANGED <<now, hbRunning, PLAYERS, player, ROOM_INSTANCES, nextMobId,
                      autoTasks, restTasks, cmd>>]_vars

\* a second rest is refused while the first rest's task is running
C28_RestRefused ==
  /\ "You are already resting." \in errors_in(ev.log)
  /\ \E ws \in WS : rest_running(player[ws], restTasks[ws])

\* C29: when a player drains another player with a lifesteal ability of damage d,
\* the target's shield takes min(shield, d), the target's health takes the rest (not
\* below 0), and the actor's health rises by max(0, d - what the shield took), not
\* above the actor's max_hp; nothing else of the two changes but the actor's
\* cooldowns and the target's combat flag.
C29_LifestealLeech ==
  [][\A o \in ev'.log : \A on \in ev'.log :
       (ev'.op = "use" /\ o.k = "use" /\ o.s = "lifesteal" /\ on.k = "on"
        /\ on.s \in WS /\ on.s # o.ws) =>
         LET a == player[o.ws]
             a1 == player'[o.ws]
             tg == player[on.s]
             tg1 == player'[on.s]
             d == CHOOSE x \in {ABILITIES[n.s].amount + (STATS.INT \div 4) :
                                  n \in {y \in ev'.log : y.k = "ability"}} : TRUE
             taken == IF tg.shield > d THEN d ELSE tg.shield
         IN  /\ tg1.shield = tg.shield - taken
             /\ tg1.hp = Max(0, tg.hp - (d - taken))
             /\ a1.hp = Min(a.max_hp, a.hp + Max(0, d - taken))
             /\ a1.hp <= a1.max_hp
             /\ a1.max_hp = a.max_hp /\ a1.shield = a.shield
             /\ tg1.max_hp = tg.max_hp]_vars

\* a drain has just hit a shield that took most of it: the shield is gone, the
\* target lost the little that was left and the actor gained as little
C29_LeechAfterShield ==
  /\ ev.op = "use"
  /\ \E o \in ev.log : \E on \in ev.log :
       /\ o.k = "use" /\ o.s = "lifesteal" /\ on.k = "on" /\ on.s \in WS /\ on.s # o.ws
       /\ player[on.s].shield = 0
       /\ player[on.s].hp < DrainHp /\ player[on.s].hp > DrainHp - 10
       /\ player[o.ws].hp > DrainHp /\ player[o.ws].hp < player[o.ws].max_hp

\* one effect instance a tick later, by its own counters alone
stepped(e) ==
  [e EXCEPT !.remaining = @ - 1, !.next_tick_in = IF @ - 1 <= 0 THEN e.tick ELSE @ - 1]

\* the health after the instances of list E that are due have fired, each on its own
RECURSIVE hp_fold(_, _, _)
hp_fold(E, hp, max_hp) ==
  IF E = <<>> THEN hp
  ELSE LET e == Head(E)
           due_now == e.next_tick_in - 1 <= 0
           hp1 == IF ~due_now THEN hp
                  ELSE IF e.kind = "dot" THEN Max(0, Min(max_hp, hp - e.amount))
                  ELSE IF e.kind = "hot" THEN hp + Max(0, Min(max_hp - hp, e.amount))
                  ELSE hp
       IN  hp_fold(Tail(E), hp1, max_hp)

\* the power the instances of list E give back as they expire, each its own delta
RECURSIVE power_back(_)
power_back(E) ==
  IF E = <<>> THEN 0
  ELSE (IF Head(E).remaining - 1 <= 0 THEN dict_get(Head(E).mod, "power", 0) ELSE 0)
       + power_back(Tail(E))

\* C30: the use of a dot, hot or buff appends one new instance to the target's
\* effects and leaves the instances already there as they were, same name or not; in
\* a tick every instance counts down, fires and expires by its own counters, and an
\* expiring buff takes back its own delta.
C30_EffectsIndependent ==
  [][\A i \in 1..Len(PLAYERS) :
       LET ws == PLAYERS[i]
           p == player[ws]
           q == player'[ws]
           attached == {o \in ev'.log : o.k = "use" /\ o.ws = ws /\ o.s \in {"dot", "hot", "buff"}}
       IN  /\ (ev'.op = "use" /\ attached # {}) =>
                 /\ Len(q.effects) = Len(p.effects) + 1
                 /\ SubSeq(q.effects, 1, Len(p.effects)) = p.effects
                 /\ Obs("ability", ws, 0, 0, q.effects[Len(q.effects)].name) \in ev'.log
                 /\ q.effects[Len(q.effects)].remaining
                      = ABILITIES[q.effects[Len(q.effects)].name].duration
           /\ now' = now + 1 =>
                 /\ q.effects = SelectSeq([j \in 1..Len(p.effects) |-> stepped(p.effects[j])],
                                          LAMBDA x : x.remaining > 0)
                 /\ q.hp = hp_fold(p.effects, p.hp, p.max_hp)
                 /\ q.power = p.power - power_back(p.effects)]_vars

\* two instances of one name have gone through a tick together, the older with
\* less time left than the younger
C30_TwoOfOneName ==
  /\ ev.op = "heartbeat"
  /\ \E ws \in WS :
       LET E == player[ws].effects
       IN  /\ connected(ws) /\ Len(E) = 2
           /\ E[1].name = E[2].name
           /\ E[1].remaining < E[2].remaining
           /\ E[2].remaining < ABILITIES[E[2].name].duration

\* C31: a player who carries no buff has the power, defense and max_hp that
\* recompute_stats derives from the base stats and the gear worn, whatever was
\* equipped or taken off while a buff was running.
C31_BuffRoundTrip ==
  \A i \in 1..Len(PLAYERS) :
    LET p == player[PLAYERS[i]]
        d == recompute_stats(p)
    IN  (\A j \in 1..Len(p.effects) : p.effects[j].kind # "buff") =>
          (p.power = d.power /\ p.defense = d.defense /\ p.max_hp = d.max_hp)

\* C32: every strike of attack and of kill and every swing of the auto-attack task
\* lands on a monster that is alive when the damage is applied.
C32_StrikesHitTheLiving ==
  \A o \in ev.log :
    /\ o.k = "strike" => o.s = "live"
    /\ o.k = "swing" => \A m \in AllMobs : m.id = o.id => (m.alive \/ m.deaths = 1)

\* C33: a step of attack, kill or use made for a player whose alive flag is false
\* leaves every monster and every other player as they were and starts no
\* auto-attack task.
C33_DeadPlayerHarmless ==
  [][\A ws \in WS :
       (~player[ws].alive /\ ev'.ws = ws /\ ev'.op \in {"attack", "kill", "use"}) =>
         /\ ROOM_INSTANCES' = ROOM_INSTANCES
         /\ \A w \in WS \ {ws} : player'[w] = player[w]
         /\ \A k \in 1..MaxTasks :
              running(autoTasks'[ws][k]) => running(autoTasks[ws][k])]_vars

\* C34: a player who is not in the connected-player map has no auto-attack task and
\* no rest task that is still running, and no step of such a task is made for them.
C34_NoTaskAfterSession ==
  /\ \A ws \in WS : ~connected(ws) =>
       \A k \in 1..MaxTasks : ~running(autoTasks[ws][k]) /\ ~running(restTasks[ws][k])
  /\ ev.op \in {"auto", "do_rest"} => connected(ev.ws)

\* C35: a rest task makes at most REST_PULSES pulses and after the last one its only
\* step is its end; a pulse raises health by at most max_hp \div REST_FRACTION and
\* never lowers it; and a step that ends the task, finished or disturbed, clears
\* the player's rest handle, so that no rest task is running and a rest is accepted.
C35_RestBoundedAndCleared ==
  [][\A ws \in WS : \A k \in 1..MaxTasks :
       LET t1 == restTasks[ws][k]
           t2 == restTasks'[ws][k]
           p1 == player[ws]
           p2 == player'[ws]
       IN  /\ t2.i <= REST_PULSES
           /\ (t1.st = "sending" /\ t1.i = REST_PULSES /\ t2 # t1) => ~running(t2)
           /\ (running(t1) /\ t2.i # t1.i) =>
                /\ t2.i = t1.i + 1
                /\ p2.hp >= p1.hp
                /\ p2.hp - p1.hp <= p1.max_hp \div REST_FRACTION
                /\ p2.hp <= p2.max_hp
           /\ (running(t1) /\ ~running(t2)) =>
                /\ p2.rest_task = 0
                /\ ~rest_running(p2, restTasks'[ws])
                /\ \A j \in 1..MaxTasks : ~running(restTasks'[ws][j])]_vars

\* C35 witness: a rest is accepted and its task created after a whole rest.  The
\* player was never in combat, so no rest was disturbed, and is at full health,
\* which takes four pulses from SavedHp: the rest before this one made its
\* REST_PULSES pulses and ended.
C35_RestAgainAfterFullRest ==
  /\ ev.op = "rest" /\ \E o \in ev.log : o.k = "rest_start"
  /\ player[ev.ws].last_combat_ts = 0
  /\ player[ev.ws].hp = player[ev.ws].max_hp
  /\ rest_running(player[ev.ws], restTasks[ev.ws])

====
